---- MODULE Spec2Model ----
(***************************************************************************)
(* Punto: the board rule engine (Board, Player, Card) as a state machine.  *)
(*                                                                         *)
(* State: the Board's fields (_cards, _turn, _winType, _winners, _losers), *)
(* each Player's fields (deck, hand, points, isTurn, color,                *)
(* nbrFirstPlayer) and the position of a running doATurn (pc, cur, auto,   *)
(* first, held).  Players are numbered 0..nbr-1 as in Board._players.      *)
(*                                                                         *)
(* Randomness (Math.random) is a nondeterministic choice.  A deck is kept  *)
(* as the set of its cards: shuffleDeck permutes it at random and drawCard *)
(* pops its last card, so the card drawn is any card of the deck; the      *)
(* permutation is resolved one draw at a time.                             *)
(***************************************************************************)
EXTENDS Integers, Sequences, FiniteSets

\* ------------------------------------------------------------ constants

\* cardDistribution: const numbers = [1..9]
NbrValues == 9
\* cardDistribution: two Card objects are pushed per (color, number)
NbrCopies == 2
\* cardDistribution (3 players): for (let i = 0; i < 6; i++)
NbrShared == 6
\* boardIsFull: this._cards.length === 72
FullBoard == 72
\* cardCanBePlaced / availableCoordinates: maxX = maxY = 5, minX = minY = -5
MaxXY == 5
\* cardCanBePlaced, availableCoordinates: lineExceedsLimit(coordinates, 6)
LineLimit == 6
\* checkVictory: hasWinningSeries(5) for 2 players
SeriesLen2 == 5
\* checkVictory: hasWinningSeries(4) for 3 or 4 players
SeriesLen34 == 4
\* determineWinnerForBlockedGame: const length = 3
BlockedLen == 3
\* Board constructor: nbrPlayers < 2 || nbrPlayers > 4
MinPlayers == 2
MaxPlayers == 4

\* ------------------------------------------------------------ bounds

\* placements explored in one game of the specification Spec
MaxCards == 2
\* reset() calls explored by Spec
MaxResets == 1
\* largest random index Math.floor(Math.random() * n) explored in
\* cardDistribution (capped by n - 1)
MaxPick == 1
\* largest face value the explored shuffles bring to the top of a deck
MaxDrawValue == 2
\* the coordinate provider answers cells with |x|, |y| <= AskRange (Spec)
AskRange == 1
MaxApiCards == 2
MaxLineCards == 7
MaxRunCards == 10
RunLeft == 2
RunRight == 3
MaxBlockedCards == 9
MaxSquareCards == 16
MaxResetCards == 7
MaxResetCalls == 3
MaxAdjacentCards == 7
MaxFreeCards == 2
MaxBudget == 2
\* cards on the board up to which playCard is called with any Card object
MaxObjectCards == 2

\* ------------------------------------------------------------ data

\* cardDistribution: const colors = ["red", "blue", "green", "yellow"]
Colors == <<"red", "blue", "green", "yellow">>

ColorSet == {Colors[i] : i \in 1..Len(Colors)}

Values == 1..NbrValues

\* A Card object: its color, its value, and which of the two copies it is.
CardIds == [color : ColorSet, value : Values, k : 1..NbrCopies]

\* Player._hand = null
NoCard == [color |-> "none", value |-> 0, k |-> 0]

\* Board._players can hold at most four players
PlayerIds == 0..(MaxPlayers - 1)

\* the names of the listPlayerOptions of launchGameNoUserInput, which lists
\* four players whatever nbrPlayers
PlayerNames == <<"Player 1", "Player 2", "Player 3", "Player 4">>

\* the lists of names explored: that list, and the same names in reverse
NameLists ==
    {PlayerNames,
     [i \in 1..Len(PlayerNames) |-> PlayerNames[Len(PlayerNames) + 1 - i]]}

\* enum WinType
WinTypes == {"None", "Win", "Draw", "Drop"}

Min(S) == CHOOSE a \in S : \A b \in S : a <= b

Max(S) == CHOOSE a \in S : \A b \in S : a >= b

Abs(a) == IF a < 0 THEN -a ELSE a

\* the elements of a sequence
Range(s) == {s[i] : i \in 1..Len(s)}

RECURSIVE Flatten(_)
\* seriesOfCards.push(...series) over a list of lists
Flatten(ss) == IF ss = <<>> THEN <<>> ELSE Head(ss) \o Flatten(Tail(ss))

RECURSIVE SortByX(_)
\* cards.sort((card1, card2) => card1.x - card2.x), the x's being distinct
SortByX(S) ==
    IF S = {} THEN <<>>
    ELSE LET m == CHOOSE a \in S : \A b \in S : a.x <= b.x
         IN  <<m>> \o SortByX(S \ {m})

RECURSIVE SortByY(_)
\* cards.sort((card1, card2) => card1.y - card2.y), the y's being distinct
SortByY(S) ==
    IF S = {} THEN <<>>
    ELSE LET m == CHOOSE a \in S : \A b \in S : a.y <= b.y
         IN  <<m>> \o SortByY(S \ {m})

\* ------------------------------------------------------------ placement rules

\* Board.boardIsEmpty
boardIsEmpty(cs) == Len(cs) = 0

\* a board that is never found full
boardIsFullNever(cs) == FALSE

\* Board.boardIsFull
boardIsFull(cs) == Len(cs) = FullBoard

\* a cap that lets a box reach the limit
lineExceedsLimitStrictly(cs, x, y, limit) ==
    LET xs == {0} \cup {cs[i].x : i \in 1..Len(cs)}
        ys == {0} \cup {cs[i].y : i \in 1..Len(cs)}
    IN  \/ Max(xs) - Min(xs) > limit
        \/ Max(ys) - Min(ys) > limit
        \/ Max(xs \cup {x}) - Min(xs \cup {x}) > limit
        \/ Max(ys \cup {y}) - Min(ys \cup {y}) > limit

\* a cap that stops a box one cell short of the limit
lineExceedsLimitEarly(cs, x, y, limit) ==
    LET xs == {0} \cup {cs[i].x : i \in 1..Len(cs)}
        ys == {0} \cup {cs[i].y : i \in 1..Len(cs)}
    IN  \/ Max(xs) - Min(xs) >= limit - 1
        \/ Max(ys) - Min(ys) >= limit - 1
        \/ Max(xs \cup {x}) - Min(xs \cup {x}) >= limit - 1
        \/ Max(ys \cup {y}) - Min(ys \cup {y}) >= limit - 1

\* Board.lineExceedsLimit: the extremes start at 0, so the box always holds the
\* origin; the box of the placed cards is tested first, then the box with
\* the candidate cell added.
lineExceedsLimit(cs, x, y, limit) ==
    LET xs == {0} \cup {cs[i].x : i \in 1..Len(cs)}
        ys == {0} \cup {cs[i].y : i \in 1..Len(cs)}
        xDistance == Max(xs) - Min(xs)
        yDistance == Max(ys) - Min(ys)
        newXDistance == Max(xs \cup {x}) - Min(xs \cup {x})
        newYDistance == Max(ys \cup {y}) - Min(ys \cup {y})
    IN  \/ xDistance >= limit
        \/ yDistance >= limit
        \/ newXDistance >= limit
        \/ newYDistance >= limit

\* the eight neighbours without the card's own cell
possibleCoordinatesAround(x, y) ==
    {q \in {<<x + dx, y + dy>> : dx \in {-1, 0, 1}, dy \in {-1, 0, 1}} :
        /\ q # <<x, y>>
        /\ (q[1] = x + 1 => x + 1 <= MaxXY)
        /\ (q[1] = x - 1 => x - 1 >= -MaxXY)
        /\ (q[2] = y + 1 => y + 1 <= MaxXY)
        /\ (q[2] = y - 1 => y - 1 >= -MaxXY)}

\* the card's own cell and its four neighbours along the axes
possibleCoordinatesOrthogonal(x, y) ==
    {q \in {<<x + dx, y + dy>> : dx \in {-1, 0, 1}, dy \in {-1, 0, 1}} :
        /\ (q[1] = x \/ q[2] = y)
        /\ (q[1] = x + 1 => x + 1 <= MaxXY)
        /\ (q[1] = x - 1 => x - 1 >= -MaxXY)
        /\ (q[2] = y + 1 => y + 1 <= MaxXY)
        /\ (q[2] = y - 1 => y - 1 >= -MaxXY)}

\* availableCoordinates, possibleCoordinates: the card's own cell and those of
\* its eight neighbours that lie in the window [-5, 5] x [-5, 5]; each
\* neighbour is pushed under the bound test of the axes on which it moves.
possibleCoordinates(x, y) ==
    {q \in {<<x + dx, y + dy>> : dx \in {-1, 0, 1}, dy \in {-1, 0, 1}} :
        /\ (q[1] = x + 1 => x + 1 <= MaxXY)
        /\ (q[1] = x - 1 => x - 1 >= -MaxXY)
        /\ (q[2] = y + 1 => y + 1 <= MaxXY)
        /\ (q[2] = y - 1 => y - 1 >= -MaxXY)}

\* a filter that lets a card onto a card of its own value
cellAcceptsEqual(cs, q, cardValue) ==
    \A i \in 1..Len(cs) :
        (cs[i].x = q[1] /\ cs[i].y = q[2]) => ~(cs[i].value > cardValue)

\* availableCoordinates, the filter of possibleCoordinates: no card placed on
\* the cell has a value higher than or equal to the value to place.
cellAccepts(cs, q, cardValue) ==
    \A i \in 1..Len(cs) :
        (cs[i].x = q[1] /\ cs[i].y = q[2]) => ~(cs[i].value >= cardValue)

\* Board.availableCoordinates.  The code returns a list that may hold a cell
\* several times; its callers test its length against 0, search it for a cell
\* and pick one element at random, so the set of its elements is kept.
availableCoordinates(cs, cardValue) ==
    LET around == UNION {possibleCoordinates(cs[i].x, cs[i].y) : i \in 1..Len(cs)}
    IN  {q \in around :
            /\ cellAccepts(cs, q, cardValue)
            /\ ~lineExceedsLimit(cs, q[1], q[2], LineLimit)}

\* a search that finds every cell once the list is not empty
holdsCellAny(availablesCoordinates, x, y) == availablesCoordinates # {}

\* cardCanBePlaced, the search of availablesCoordinates: the list is not
\* empty and holds the cell (x, y)
holdsCell(availablesCoordinates, x, y) ==
    /\ availablesCoordinates # {}
    /\ <<x, y>> \in availablesCoordinates

\* Board.cardCanBePlaced
cardCanBePlaced(cs, cardValue, x, y) ==
    IF x > MaxXY \/ x < -MaxXY \/ y > MaxXY \/ y < -MaxXY THEN FALSE
    ELSE IF lineExceedsLimit(cs, x, y, LineLimit) THEN FALSE
    ELSE IF ~boardIsEmpty(cs)
         THEN holdsCell(availableCoordinates(cs, cardValue), x, y)
         ELSE TRUE

\* ------------------------------------------------------------ series

\* determineSeriesOfCards, the first loop: a card pushed into a group removes
\* from it every card of the same cell, so a group keeps, of each cell, the
\* card placed last.
topCards(cs) ==
    {cs[i] : i \in {j \in 1..Len(cs) :
                      \A m \in (j + 1)..Len(cs) :
                          ~(cs[m].x = cs[j].x /\ cs[m].y = cs[j].y)}}

RECURSIVE firstSeen(_, _)
\* the distinct elements of ks in the order of their first occurrence: the
\* order in which the keys of a group object are created
firstSeen(ks, seen) ==
    IF ks = <<>> THEN <<>>
    ELSE IF Head(ks) \in seen THEN firstSeen(Tail(ks), seen)
    ELSE <<Head(ks)>> \o firstSeen(Tail(ks), seen \cup {Head(ks)})

RECURSIVE ascending(_)
\* the elements of a set of integers in ascending order
ascending(S) ==
    IF S = {} THEN <<>> ELSE <<Min(S)>> \o ascending(S \ {Min(S)})

\* for (const key in group): JavaScript lists the keys that are array indices
\* ("0", "1", ...) in ascending order and then the other keys ("-1", ...) in
\* the order of their creation.
forInKeys(ks) ==
    LET negative(a) == a < 0
    IN  ascending({a \in Range(ks) : a >= 0})
        \o SelectSeq(firstSeen(ks, {}), negative)

RECURSIVE scanLine(_, _, _, _, _)
\* determineSeriesOfCards, the loops over cardsSameX (vertical) and cardsSameY:
\* a card extends the series when it is the next cell of the line and has the
\* color of the last card; a series that reaches `length` is pushed and a new
\* one is started; a card that does not extend the series starts a new one.
scanLine(cards, series, out, length, vertical) ==
    IF cards = <<>> THEN out
    ELSE LET card == Head(cards)
             last == series[Len(series)]
             next == IF vertical THEN card.y = last.y + 1
                     ELSE card.x = last.x + 1
         IN  IF Len(series) = 0
             THEN scanLine(Tail(cards), <<card>>, out, length, vertical)
             ELSE IF next /\ card.color = last.color
             THEN IF Len(series) + 1 >= length
                  THEN scanLine(Tail(cards), <<>>,
                                Append(out, Append(series, card)), length, vertical)
                  ELSE scanLine(Tail(cards), Append(series, card), out,
                                length, vertical)
             ELSE scanLine(Tail(cards), <<card>>,
                           IF Len(series) >= length THEN Append(out, series)
                           ELSE out,
                           length, vertical)

\* Board.isNextInDiagonal
isNextInDiagonal(prevCard, currentCard, isLeftToRight) ==
    IF isLeftToRight
    THEN currentCard.x = prevCard.x + 1 /\ currentCard.y = prevCard.y + 1
    ELSE currentCard.x = prevCard.x + 1 /\ currentCard.y = prevCard.y - 1

\* Board.isSamePlayerAndColor
isSamePlayerAndColor(card1, card2) ==
    card1.color = card2.color /\ card1.playedBy = card2.playedBy

RECURSIVE scanDiagonal(_, _, _, _, _)
\* findSeriesInDiagonal, the loop and the test after it
scanDiagonal(cards, tempSeries, series, length, isLeftToRight) ==
    IF cards = <<>>
    THEN IF Len(tempSeries) >= length THEN Append(series, tempSeries) ELSE series
    ELSE LET card == Head(cards)
         IN  IF \/ Len(tempSeries) = 0
                \/ /\ isNextInDiagonal(tempSeries[Len(tempSeries)], card,
                                       isLeftToRight)
                   /\ isSamePlayerAndColor(tempSeries[1], card)
             THEN scanDiagonal(Tail(cards), Append(tempSeries, card), series,
                               length, isLeftToRight)
             ELSE scanDiagonal(Tail(cards), <<card>>,
                               IF Len(tempSeries) >= length
                               THEN Append(series, tempSeries) ELSE series,
                               length, isLeftToRight)

\* Board.findSeriesInDiagonal
findSeriesInDiagonal(cards, length, isLeftToRight) ==
    scanDiagonal(cards, <<>>, <<>>, length, isLeftToRight)

\* Board.determineSeriesOfCards: the series found in the columns (same x), the
\* rows (same y), the diagonals x - y and the diagonals x + y, in this order.
determineSeriesOfCards(cs, length) ==
    LET tops == topCards(cs)
        keysX == forInKeys([i \in 1..Len(cs) |-> cs[i].x])
        keysY == forInKeys([i \in 1..Len(cs) |-> cs[i].y])
        keysLR == forInKeys([i \in 1..Len(cs) |-> cs[i].x - cs[i].y])
        keysRL == forInKeys([i \in 1..Len(cs) |-> cs[i].x + cs[i].y])
        sameX == [i \in 1..Len(keysX) |->
                    scanLine(SortByY({c \in tops : c.x = keysX[i]}),
                             <<>>, <<>>, length, TRUE)]
        sameY == [i \in 1..Len(keysY) |->
                    scanLine(SortByX({c \in tops : c.y = keysY[i]}),
                             <<>>, <<>>, length, FALSE)]
        diagLR == [i \in 1..Len(keysLR) |->
                    findSeriesInDiagonal(
                        SortByX({c \in tops : c.x - c.y = keysLR[i]}),
                        length, TRUE)]
        diagRL == [i \in 1..Len(keysRL) |->
                    findSeriesInDiagonal(
                        SortByX({c \in tops : c.x + c.y = keysRL[i]}),
                        length, FALSE)]
    IN  Flatten(sameX) \o Flatten(sameY) \o Flatten(diagLR) \o Flatten(diagRL)

\* hasWinningSeries / determineWinnerForBlockedGame, the loop over the cards of
\* a series: `return` leaves the callback of that card only, so every card
\* after the first is compared with the owner of the first, and the series is
\* kept when the card at index length - 1 has that owner.
seriesIsKept(series, length) ==
    /\ Len(series) >= length
    /\ length - 1 >= 1
    /\ series[length].playedBy = series[1].playedBy

\* the owner of the first card of each series of `keptSeries`
firstOwners(keptSeries) ==
    [i \in 1..Len(keptSeries) |-> keptSeries[i][1].playedBy]

\* hasWinningSeries, playersWithPossibleWinningSeries: the owner of the first
\* card of each kept series, one entry per series.
playersWithPossibleWinningSeries(cs, length) ==
    LET kept(series) == seriesIsKept(series, length)
    IN  firstOwners(SelectSeq(determineSeriesOfCards(cs, length), kept))

\* hasWinningSeries, `if (playersWithPossibleWinningSeries.length === 1)`: a
\* player, or <<>> for undefined
soleEntry(possible) ==
    IF Len(possible) = 1 THEN <<possible[1]>> ELSE <<>>

\* Board.hasWinningSeries: a player, or <<>> for undefined; the result as the
\* list checkVictory builds from it (winners.push(winner) when defined).
hasWinningSeries(cs, length) ==
    soleEntry(playersWithPossibleWinningSeries(cs, length))

\* ------------------------------------------------------------ victory

RECURSIVE sumValues(_)
\* series.forEach((card) => { sum += card.value })
sumValues(series) ==
    IF series = <<>> THEN 0 ELSE Head(series).value + sumValues(Tail(series))

RECURSIVE removeDuplicates(_, _, _)
\* determineWinnerForBlockedGame, "Remove potential duplicates": forEach over
\* the list while entries are spliced out of it; after a splice at index i the
\* next entry visited is the one at i + 1 of the shortened list.
removeDuplicates(list, i, seen) ==
    IF i > Len(list) THEN list
    ELSE IF list[i] \in seen
    THEN removeDuplicates(SubSeq(list, 1, i - 1) \o SubSeq(list, i + 1, Len(list)),
                          i + 1, seen)
    ELSE removeDuplicates(list, i + 1, seen \cup {list[i]})

\* determineWinnerForBlockedGame: the number of series whose first card the
\* player owns
countSeriesOfCards(all, player) ==
    Cardinality({i \in 1..Len(all) : all[i][1].playedBy = player})

RECURSIVE sumSeriesOfCards(_, _)
\* determineWinnerForBlockedGame: the sum of the values of the cards of the
\* series whose first card the player owns
sumSeriesOfCards(all, player) ==
    IF all = <<>> THEN 0
    ELSE (IF Head(all)[1].playedBy = player THEN sumValues(Head(all)) ELSE 0)
         + sumSeriesOfCards(Tail(all), player)

\* determineWinnerForBlockedGame, playersWithMaxCount: the players of
\* `possible` with the most series, duplicates removed
playersWithMaxCount(all, possible) ==
    LET maxCount == Max({0} \cup {countSeriesOfCards(all, possible[i]) :
                                    i \in 1..Len(possible)})
        isMax(player) == countSeriesOfCards(all, player) = maxCount
    IN  removeDuplicates(SelectSeq(possible, isMax), 1, {})

\* determineWinnerForBlockedGame, playersWithMinSum: the players of `withMax`
\* whose series have the least sum of values, duplicates removed
playersWithMinSum(all, withMax) ==
    LET minSum == Min({sumSeriesOfCards(all, withMax[i]) :
                         i \in 1..Len(withMax)})
        isMin(player) == sumSeriesOfCards(all, player) = minSum
    IN  removeDuplicates(SelectSeq(withMax, isMin), 1, {})

\* determineWinnerForBlockedGame, from `if (playersWithPossibleWinningSeries
\* .length > 1)` on
blockedWinners(all, possible, withMax) ==
    IF Len(possible) > 1
    THEN IF Len(withMax) > 1
         THEN playersWithMinSum(all, withMax)
         ELSE <<withMax[1]>>
    ELSE <<>>

\* Board.determineWinnerForBlockedGame
determineWinnerForBlockedGame(cs) ==
    blockedWinners(determineSeriesOfCards(cs, BlockedLen),
                   playersWithPossibleWinningSeries(cs, BlockedLen),
                   playersWithMaxCount(
                       determineSeriesOfCards(cs, BlockedLen),
                       playersWithPossibleWinningSeries(cs, BlockedLen)))

\* Board.nbrPlayers, Board._players as the list of its indices
playerList(n) == [i \in 1..n |-> i - 1]

\* Board.getPlayerTurn: the first player whose isTurn is true, -1 for undefined
getPlayerTurn(n, turnFlags) ==
    IF \E p \in 0..(n - 1) : turnFlags[p]
    THEN Min({p \in 0..(n - 1) : turnFlags[p]})
    ELSE -1

\* Board.isGameBlocked
isGameBlocked(cs, n, turnFlags, hands) ==
    IF boardIsFull(cs) THEN TRUE
    ELSE LET playerWhoCantPlay == getPlayerTurn(n, turnFlags)
         IN  playerWhoCantPlay # -1 /\ hands[playerWhoCantPlay] # NoCard

\* checkVictory: losers.filter((player) => winners.indexOf(player) === -1)
losersOf(n, winnerList) ==
    LET notWinner(p) == p \notin Range(winnerList)
    IN  SelectSeq(playerList(n), notWinner)

\* checkVictory, the result object for the winner of a series (`winner`), the
\* winners of a blocked game (`blocked`) and isGameBlocked() (`isBlocked`)
victoryOf(n, winner, blocked, isBlocked) ==
    IF Len(winner) > 0
    THEN [winType |-> "Win", winners |-> winner, losers |-> losersOf(n, winner)]
    ELSE IF isBlocked
    THEN [winType |-> IF Len(blocked) = 0 THEN "Draw" ELSE "Win",
          winners |-> blocked,
          losers |-> losersOf(n, blocked)]
    ELSE [winType |-> "None", winners |-> <<>>, losers |-> playerList(n)]

\* Board.checkVictory
checkVictory(cs, n, turnFlags, hands) ==
    victoryOf(n,
              hasWinningSeries(cs, IF n = 2 THEN SeriesLen2 ELSE SeriesLen34),
              determineWinnerForBlockedGame(cs),
              isGameBlocked(cs, n, turnFlags, hands))

\* ------------------------------------------------------------ state

VARIABLES
    asked,          \* nbrPlayers of the last `new Board` (0 before the first)
    assigned,       \* the player the constructor or reset() last gave the
                    \* first turn to, -1 before the first (history)
    nbr,            \* Board._players.length (0 until a Board is constructed)
    players,        \* Board._players, as the list of the names of its players
    options,        \* the names of the listPlayerOptions of the last
                    \* `new Board` (history)
    cards,          \* Board._cards: the placed cards, in placement order
    turn,           \* Board._turn
    winType,        \* Board._winType
    winners,        \* Board._winners, a list of players
    losers,         \* Board._losers, a list of players
    deck,           \* Player._deck of each player, as the set of its cards
    hand,           \* Player._hand of each player, NoCard for null
    points,         \* Player._points
    isTurn,         \* Player.isTurn
    color,          \* Player.color, a list of colors
    nbrFirstPlayer, \* Player.nbrFirstPlayer
    pc,             \* "new": no Board yet; "idle": no doATurn is running;
                    \* "loop": doATurn at the head of its for loop; "place":
                    \* at the head of its do-while loop; "ask": suspended in
                    \* await player.askCoordinates
    cur,            \* doATurn's playerTurn, the index of the loop's player;
                    \* the player of a direct playCard call
    auto,           \* doATurn's parameter auto
    first,          \* doATurn's firstTimeToDemandeCoordinates
    held,           \* doATurn's local `card`; the card of a direct
                    \* playCard call
    xy,             \* doATurn's locals x and y; the cell of a direct
                    \* playCard call
    fault,          \* the error thrown by the last call, "none" if none
    result,         \* the value returned by the last playCard call
    event,          \* what the last step did (history)
    punto,          \* Punto.playGame: its argument nbrTurn, the doATurn
                    \* calls it has made (i), and whether it is running
    resets          \* the number of reset() calls so far (history)

vars == <<punto, asked, assigned, nbr, players, options, cards, turn, winType,
          winners, losers, deck, hand, points, isTurn, color, nbrFirstPlayer,
          pc, cur, auto, first, held, xy, fault, result, event, resets>>

boardVars == <<cards, turn, winType, winners, losers>>

playerVars == <<deck, hand, points, isTurn, color, nbrFirstPlayer>>

turnVars == <<cur, auto, first, held, xy>>

\* the players of the board
Players == 0..(nbr - 1)

\* a card that records the turn counter one round late
placedLate(card, x, y, playedTurn, playedIn, playedBy) ==
    [color |-> card.color, value |-> card.value, k |-> card.k,
     x |-> x, y |-> y, playedTurn |-> playedTurn + 1, playedIn |-> playedIn,
     playedBy |-> playedBy]

\* a card as it lies on the board: placeCard sets x, y, playedTurn, playedIn
\* and playedBy
placed(card, x, y, playedTurn, playedIn, playedBy) ==
    [color |-> card.color, value |-> card.value, k |-> card.k,
     x |-> x, y |-> y, playedTurn |-> playedTurn, playedIn |-> playedIn,
     playedBy |-> playedBy]

\* the Card object of a placed card
cardOf(c) == [color |-> c.color, value |-> c.value, k |-> c.k]

\* no playGame() has been called
NoGame == [state |-> "none", nbrTurn |-> 0, i |-> 0]

\* before `new Board(...)`
Init ==
    /\ asked = 0
    /\ assigned = -1
    /\ nbr = 0
    /\ players = <<>>
    /\ options = <<>>
    /\ cards = <<>>
    /\ turn = 0
    /\ winType = "None"
    /\ winners = <<>>
    /\ losers = <<>>
    /\ deck = [p \in PlayerIds |-> {}]
    /\ hand = [p \in PlayerIds |-> NoCard]
    /\ points = [p \in PlayerIds |-> 0]
    /\ isTurn = [p \in PlayerIds |-> FALSE]
    /\ color = [p \in PlayerIds |-> <<>>]
    /\ nbrFirstPlayer = [p \in PlayerIds |-> 0]
    /\ pc = "new"
    /\ cur = 0
    /\ auto = FALSE
    /\ first = TRUE
    /\ held = NoCard
    /\ xy = <<0, 0>>
    /\ fault = "none"
    /\ result = "none"
    /\ event = "init"
    /\ resets = 0
    /\ punto = NoGame

\* ------------------------------------------------------------ distribution

\* listCard[color]: the cards of a color in the order they are pushed
listCard(col) ==
    [i \in 1..(NbrValues * NbrCopies) |->
        [color |-> col, value |-> ((i - 1) \div NbrCopies) + 1,
         k |-> ((i - 1) % NbrCopies) + 1]]

\* list[Math.floor(Math.random() * list.length)] with the random index r,
\* which is smaller than list.length
pickAt(list, r) == list[Min({r, Len(list) - 1}) + 1]

\* list.splice(list.indexOf(e), 1)
without(list, e) ==
    LET keep(a) == a # e IN SelectSeq(list, keep)

RECURSIVE pickMany(_, _, _)
\* `count` times: pick an element of the list at random and remove it; the
\* elements picked, in order
pickMany(list, r, count) ==
    IF count = 0 THEN <<>>
    ELSE <<pickAt(list, r)>>
         \o pickMany(without(list, pickAt(list, r)), r, count - 1)

RECURSIVE removeAll(_, _)
\* the list without the elements of `gone`
removeAll(list, gone) ==
    IF gone = <<>> THEN list
    ELSE removeAll(without(list, Head(gone)), Tail(gone))

RECURSIVE colorsOf(_, _, _, _)
\* cardDistribution, the color picks: the players in order each pick
\* `each` colors from those left; rnd[p] is the random index player p draws
colorsOf(p, left, rnd, each) ==
    LET mine == pickMany(left, rnd[p], each)
    IN  IF p = Len(rnd) THEN <<mine>>
        ELSE <<mine>> \o colorsOf(p + 1, removeAll(left, mine), rnd, each)

RECURSIVE sharedOfKeeping(_, _, _)
\* a distribution that leaves the cards it picks in listCard[lastColor]
sharedOfKeeping(p, left, rnd) ==
    LET mine == pickMany(left, rnd[p], NbrShared)
    IN  IF p = Len(rnd) THEN <<mine>>
        ELSE <<mine>> \o sharedOfKeeping(p + 1, left, rnd)

RECURSIVE sharedOf(_, _, _)
\* cardDistribution for 3 players, listOf6RandomCards of each player in order
sharedOf(p, left, rnd) ==
    LET mine == pickMany(left, rnd[p], NbrShared)
    IN  IF p = Len(rnd) THEN <<mine>>
        ELSE <<mine>> \o sharedOf(p + 1, removeAll(left, mine), rnd)

\* cardDistribution: player.color of each player (rnd is indexed 1..n)
distributedColors(n, rnd) ==
    colorsOf(1, Colors, rnd, IF n = 2 THEN 2 ELSE 1)

\* cardDistribution: the cards fillDeck puts in each player's deck
distributedDecks(n, rnd) ==
    LET cols == distributedColors(n, rnd)
        own(p) == UNION {Range(listCard(cols[p][i])) : i \in 1..Len(cols[p])}
        lastColor == removeAll(Colors, Flatten(cols))[1]
        shared == sharedOf(1, listCard(lastColor), rnd)
    IN  [p \in 1..n |->
            IF n = 3 THEN own(p) \cup Range(shared[p]) ELSE own(p)]

\* cardDistribution as it leaves the players: color and deck of each
cardDistribution(n, rnd) ==
    /\ color' = [p \in PlayerIds |->
                    IF p < n THEN distributedColors(n, rnd)[p + 1] ELSE <<>>]
    /\ deck' = [p \in PlayerIds |->
                    IF p < n THEN distributedDecks(n, rnd)[p + 1] ELSE {}]

\* the random indices explored for the n players of a distribution
Randoms(n) == [1..n -> 0..MaxPick]

\* ------------------------------------------------------------ operations

\* Board.addPoints: one point per entry of the winners list
addPoints(ws) ==
    [p \in PlayerIds |-> points[p] + Cardinality({i \in 1..Len(ws) : ws[i] = p})]

\* Board.endGame
endGame(wt, ws, ls) ==
    /\ winType' = wt
    /\ losers' = ls
    /\ winners' = ws
    /\ points' = IF wt = "Win" THEN addPoints(ws) ELSE points

\* a constructor whose test lets one player through
invalidNbrPlayersFromOne(n) == n < MinPlayers - 1 \/ n > MaxPlayers

\* Board.constructor, `if (nbrPlayers < 2 || nbrPlayers > 4)`
invalidNbrPlayers(n) == n < MinPlayers \/ n > MaxPlayers

\* the last n names of the options
lastPlayers(n, names) == SubSeq(names, Len(names) - n + 1, Len(names))

\* Board.constructor, listPlayer: a Player for each of the first nbrPlayers
\* entries of listPlayerOptions, in their order
firstPlayers(n, names) == SubSeq(names, 1, n)

\* new Board({nbrPlayers: n, listPlayerOptions}): `names` are the names of the
\* options, `flags` the players whose options say isTurn, `rand` the player
\* randomizePlayerTurn picks when no option does, rnd the random indices of
\* cardDistribution.
NewBoard(n, names, flags, rand, rnd) ==
    /\ pc = "new"
    /\ asked' = n
    /\ options' = names
    /\ IF invalidNbrPlayers(n)
       THEN /\ fault' = "The number of players must be between 2 and 4."
            /\ event' = "fault"
            /\ UNCHANGED <<assigned, punto, nbr, players, boardVars,
                           playerVars, pc, turnVars, result, resets>>
       ELSE /\ nbr' = n
            /\ players' = firstPlayers(n, names)
            /\ isTurn' = [p \in PlayerIds |->
                            p < n /\ (p \in flags \/ (flags = {} /\ p = rand))]
            /\ assigned' = IF flags = {} THEN rand ELSE Min(flags)
            /\ cardDistribution(n, rnd)
            /\ pc' = "idle"
            /\ fault' = "none"
            /\ event' = "new"
            /\ UNCHANGED <<punto, boardVars, hand, points, nbrFirstPlayer,
                           turnVars, result, resets>>

\* a doATurn that starts a turn whatever the outcome of the game
DoATurnUnchecked(a) ==
    /\ pc = "idle"
    /\ pc' = "loop"
    /\ cur' = 0
    /\ auto' = a
    /\ fault' = "none"
    /\ event' = "turn"
    /\ UNCHANGED <<asked, assigned, nbr, players, options, boardVars,
                   playerVars, first, held, xy, result, resets>>

\* Board.doATurn, from the call to the head of the for loop
DoATurn(a) ==
    /\ pc = "idle"
    /\ IF winType # "None"
       THEN /\ fault' = "The game is already over."
            /\ event' = "fault"
            /\ UNCHANGED <<asked, assigned, nbr, players, options, boardVars,
                           playerVars, pc, turnVars, result, resets>>
       ELSE /\ pc' = "loop"
            /\ cur' = 0
            /\ auto' = a
            /\ fault' = "none"
            /\ event' = "turn"
            /\ UNCHANGED <<asked, assigned, nbr, players, options, boardVars,
                           playerVars, first, held, xy, result, resets>>

\* the cards a shuffle of the deck d may have left on top; of two copies of a
\* card the first stands for both
DrawSet(d, maxValue) ==
    {c \in d : /\ c.value <= maxValue
               /\ \A e \in d : (e.color = c.color /\ e.value = c.value)
                                  => e.k >= c.k}

\* this.endGame(gameVictory.winType, gameVictory.winners, gameVictory.losers)
endGameWith(gameVictory) ==
    endGame(gameVictory.winType, gameVictory.winners, gameVictory.losers)

\* doATurn ends the game with what checkVictory returns
endByVictory(cs, flags, hands) ==
    endGameWith(checkVictory(cs, nbr, flags, hands))

\* Board.doATurn, one pass of the for loop up to the do-while loop: the loop
\* ends (addTurn), or the player gets the turn and draws.  `cap` bounds the
\* placements explored, `tops` are the cards the shuffle may have left on top.
LoopStep(cap, tops) ==
    /\ pc = "loop"
    /\ LET flags == [isTurn EXCEPT ![cur] = TRUE]
       IN  IF cur >= nbr
           THEN /\ turn' = turn + 1
                /\ isTurn' = [isTurn EXCEPT ![0] = TRUE]
                /\ pc' = "idle"
                /\ event' = "roundEnd"
                /\ UNCHANGED <<asked, assigned, punto, nbr, players, options,
                               cards, winType, winners, losers, deck, hand,
                               points, color, nbrFirstPlayer, turnVars, fault,
                               result, resets>>
           ELSE IF winType # "None"
           THEN /\ pc' = "idle"
                /\ event' = "return"
                /\ UNCHANGED <<asked, assigned, punto, nbr, players, options,
                               boardVars, playerVars, turnVars, fault, result,
                               resets>>
           ELSE IF hand[cur] # NoCard
           THEN /\ isTurn' = flags
                /\ fault' = "The player already has a card in hand."
                /\ pc' = "idle"
                /\ event' = "fault"
                /\ UNCHANGED <<asked, assigned, punto, nbr, players, options,
                               boardVars, deck, hand, points, color,
                               nbrFirstPlayer, turnVars, result, resets>>
           ELSE IF deck[cur] = {}
           THEN /\ isTurn' = flags
                /\ endByVictory(cards, flags, hand)
                /\ pc' = "idle"
                /\ event' = "nodeck"
                /\ UNCHANGED <<asked, assigned, punto, nbr, players, options,
                               cards, turn, deck, hand, color, nbrFirstPlayer,
                               turnVars, fault, result, resets>>
           ELSE /\ Len(cards) < cap
                /\ \E card \in tops :
                      /\ deck' = [deck EXCEPT ![cur] = @ \ {card}]
                      /\ hand' = [hand EXCEPT ![cur] = card]
                      /\ held' = card
                /\ isTurn' = flags
                /\ xy' = <<0, 0>>
                /\ first' = TRUE
                /\ pc' = "place"
                /\ event' = "draw"
                /\ UNCHANGED <<asked, assigned, punto, nbr, players, options,
                               boardVars, points, color, nbrFirstPlayer, cur,
                               auto, fault, result, resets>>

\* a playCard that leaves the card in the hand of the player
playCardKeepingHand(player, playerTurn, card, x, y) ==
    IF hand[player] = NoCard
    THEN [cards |-> cards, hand |-> hand,
          result |-> "The player does not have the card in hand."]
    ELSE IF cardCanBePlaced(cards, card.value, x, y)
    THEN [cards |-> Append(cards, placed(card, x, y, turn, playerTurn, player)),
          hand |-> hand,
          result |-> "The card was successfully placed."]
    ELSE [cards |-> cards, hand |-> hand,
          result |-> "The card could not be placed."]

\* a playCard that does not look at the hand of the player
playCardUnchecked(player, playerTurn, card, x, y) ==
    IF cardCanBePlaced(cards, card.value, x, y)
    THEN [cards |-> Append(cards, placed(card, x, y, turn, playerTurn, player)),
          hand |-> [hand EXCEPT ![player] = NoCard],
          result |-> "The card was successfully placed."]
    ELSE [cards |-> cards, hand |-> hand,
          result |-> "The card could not be placed."]

\* a playCard that takes the card out of the hand when the cell refuses it
playCardLosingCard(player, playerTurn, card, x, y) ==
    IF hand[player] = NoCard
    THEN [cards |-> cards, hand |-> hand,
          result |-> "The player does not have the card in hand."]
    ELSE IF cardCanBePlaced(cards, card.value, x, y)
    THEN [cards |-> Append(cards, placed(card, x, y, turn, playerTurn, player)),
          hand |-> [hand EXCEPT ![player] = NoCard],
          result |-> "The card was successfully placed."]
    ELSE [cards |-> cards, hand |-> [hand EXCEPT ![player] = NoCard],
          result |-> "The card could not be placed."]

\* a playCard that takes the card of the cell off the board when it puts
\* another one on it
playCardReplacing(player, playerTurn, card, x, y) ==
    IF hand[player] = NoCard
    THEN [cards |-> cards, hand |-> hand,
          result |-> "The player does not have the card in hand."]
    ELSE IF cardCanBePlaced(cards, card.value, x, y)
    THEN [cards |-> Append(SelectSeq(cards,
                                     LAMBDA c : ~(c.x = x /\ c.y = y)),
                           placed(card, x, y, turn, playerTurn, player)),
          hand |-> [hand EXCEPT ![player] = NoCard],
          result |-> "The card was successfully placed."]
    ELSE [cards |-> cards, hand |-> hand,
          result |-> "The card could not be placed."]

\* Board.placeCard and Board.playCard for `player` with the card `card`: the
\* cards on the board, the hands and the string returned
playCardOutcome(player, playerTurn, card, x, y) ==
    IF hand[player] = NoCard
    THEN [cards |-> cards, hand |-> hand,
          result |-> "The player does not have the card in hand."]
    ELSE IF cardCanBePlaced(cards, card.value, x, y)
    THEN [cards |-> Append(cards, placed(card, x, y, turn, playerTurn, player)),
          hand |-> [hand EXCEPT ![player] = NoCard],
          result |-> "The card was successfully placed."]
    ELSE [cards |-> cards, hand |-> hand,
          result |-> "The card could not be placed."]

\* doATurn after playCard: Drop when playCard failed, else the verdict
\* `gameVictory` of checkVictory; the game ends, or the turn passes on.
AfterPlay(played, gameVictory) ==
    /\ cards' = played.cards
    /\ hand' = played.hand
    /\ result' = played.result
    /\ IF played.result # "The card was successfully placed."
       THEN /\ endGame("Drop", <<>>, playerList(nbr))
            /\ pc' = "idle"
            /\ event' = "drop"
            /\ UNCHANGED <<isTurn, cur>>
       ELSE IF gameVictory.winType # "None"
       THEN /\ endGame(gameVictory.winType, gameVictory.winners,
                       gameVictory.losers)
            /\ pc' = "idle"
            /\ event' = "decided"
            /\ UNCHANGED <<isTurn, cur>>
       ELSE /\ isTurn' = [isTurn EXCEPT ![cur] = FALSE]
            /\ cur' = cur + 1
            /\ pc' = "loop"
            /\ event' = "placed"
            /\ UNCHANGED <<winType, winners, losers, points>>

\* checkVictory as doATurn calls it once playCard has returned `played`
victoryAfter(played) == checkVictory(played.cards, nbr, isTurn, played.hand)

\* doATurn after its do-while loop: playCard at (x, y), then checkVictory
Commit(x, y) ==
    /\ AfterPlay(playCardOutcome(cur, cur, held, x, y),
                 victoryAfter(playCardOutcome(cur, cur, held, x, y)))
    /\ xy' = <<x, y>>
    /\ UNCHANGED <<asked, assigned, punto, nbr, players, options, turn, deck,
                   color, nbrFirstPlayer, auto, first, held, fault, resets>>

\* a doATurn that passes to the next player when no coordinates came
NoCoordinatesPassing(why) ==
    /\ pc' = "loop"
    /\ cur' = cur + 1
    /\ event' = why
    /\ UNCHANGED <<asked, assigned, punto, nbr, players, options, boardVars,
                   playerVars, auto, first, held, xy, fault, result, resets>>

\* a doATurn that ends the game as dropped when no coordinates came
NoCoordinatesDropping(why) ==
    /\ endGame("Drop", <<>>, playerList(nbr))
    /\ pc' = "idle"
    /\ event' = why
    /\ UNCHANGED <<asked, assigned, punto, nbr, players, options, cards, turn,
                   deck, hand, isTurn, color, nbrFirstPlayer, turnVars, fault,
                   result, resets>>

\* doATurn ends the game because no coordinates came: checkVictory, endGame
NoCoordinates(why) ==
    /\ endByVictory(cards, isTurn, hand)
    /\ pc' = "idle"
    /\ event' = why
    /\ UNCHANGED <<asked, assigned, punto, nbr, players, options, cards, turn,
                   deck, hand, isTurn, color, nbrFirstPlayer, turnVars, fault,
                   result, resets>>

\* a do-while loop that gives up on the player when the cell cannot take
\* the card
AgainSkipping(x, y, nextPc) ==
    /\ xy' = <<x, y>>
    /\ first' = FALSE
    /\ pc' = "loop"
    /\ cur' = cur + 1
    /\ event' = "illegal"
    /\ UNCHANGED <<asked, assigned, punto, nbr, players, options, boardVars,
                   playerVars, auto, held, fault, result, resets>>

\* doATurn's do-while loop goes round: the cell (x, y) cannot take the card
Again(x, y, nextPc) ==
    /\ xy' = <<x, y>>
    /\ first' = IF boardIsEmpty(cards) THEN first ELSE FALSE
    /\ pc' = nextPc
    /\ event' = "illegal"
    /\ UNCHANGED <<asked, assigned, punto, nbr, players, options, boardVars,
                   playerVars, cur, auto, held, fault, result, resets>>

\* a do-while loop that asks the player of a game that is not automatic for
\* the cell of the first card too
PlaceWithAsking(picks) ==
    /\ pc = "place"
    /\ IF auto
       THEN IF boardIsEmpty(cards)
            THEN Commit(xy[1], xy[2])
            ELSE IF availableCoordinates(cards, held.value) = {}
            THEN NoCoordinates("blocked")
            ELSE \E q \in picks :
                    IF cardCanBePlaced(cards, held.value, q[1], q[2])
                    THEN Commit(q[1], q[2])
                    ELSE Again(q[1], q[2], "place")
       ELSE /\ pc' = "ask"
            /\ event' = "ask"
            /\ UNCHANGED <<asked, assigned, punto, nbr, players, options,
                           boardVars, playerVars, turnVars, fault, result,
                           resets>>

\* Board.doATurn, the head of the do-while loop: (x, y) as it stands on an
\* empty board, a cell determineCardCoordinates picks in automatic play, or
\* the wait for the player's coordinates.  `picks` are the cells of
\* availableCoordinates that the random index of determineCardCoordinates
\* may select.
PlaceWith(picks) ==
    /\ pc = "place"
    /\ IF boardIsEmpty(cards)
       THEN IF cardCanBePlaced(cards, held.value, xy[1], xy[2])
            THEN Commit(xy[1], xy[2])
            ELSE Again(xy[1], xy[2], "place")
       ELSE IF auto
       THEN IF availableCoordinates(cards, held.value) = {}
            THEN NoCoordinates("blocked")
            ELSE \E q \in picks :
                    IF cardCanBePlaced(cards, held.value, q[1], q[2])
                    THEN Commit(q[1], q[2])
                    ELSE Again(q[1], q[2], "place")
       ELSE /\ pc' = "ask"
            /\ event' = "ask"
            /\ UNCHANGED <<asked, assigned, punto, nbr, players, options,
                           boardVars, playerVars, turnVars, fault, result,
                           resets>>

\* the head of the do-while loop, any cell of availableCoordinates picked
PlaceStep == PlaceWith(availableCoordinates(cards, held.value))

\* what player.askCoordinates resolves to: false (a refusal), coordinates, or
\* the coordinates {x: Infinity, y: Infinity} of the answer "auto"
Answers(cells) ==
    {[kind |-> "refuse", x |-> 0, y |-> 0], [kind |-> "auto", x |-> 0, y |-> 0]}
    \cup {[kind |-> "cell", x |-> q[1], y |-> q[2]] : q \in cells}

\* Board.doATurn resumed by the answer of player.askCoordinates
Answer(resp) ==
    /\ pc = "ask"
    /\ IF resp.kind = "refuse"
       THEN NoCoordinates("refusal")
       ELSE IF resp.kind = "auto" /\ availableCoordinates(cards, held.value) = {}
       THEN NoCoordinates("blocked")
       ELSE \E q \in IF resp.kind = "auto"
                     THEN availableCoordinates(cards, held.value)
                     ELSE {<<resp.x, resp.y>>} :
               IF cardCanBePlaced(cards, held.value, q[1], q[2])
               THEN Commit(q[1], q[2])
               ELSE Again(q[1], q[2],
                          IF boardIsEmpty(cards) THEN "place" ELSE "ask")

\* playerTurnByNbrFirstPlayer(true): the first player with the most
\* nbrFirstPlayer
playerTurnByMax ==
    Min({p \in Players :
            \A o \in Players : nbrFirstPlayer[p] >= nbrFirstPlayer[o]})

\* Board.playerTurnByNbrFirstPlayer(false): the first player with the least
\* nbrFirstPlayer
playerTurnByNbrFirstPlayer ==
    Min({p \in Players :
            \A o \in Players : nbrFirstPlayer[p] <= nbrFirstPlayer[o]})

\* a reset that leaves the points of the players as they are
ResetKeepingPoints(rnd) ==
    /\ pc \in {"idle", "ask"}
    /\ cards' = <<>>
    /\ hand' = [p \in PlayerIds |-> NoCard]
    /\ points' = points
    /\ turn' = 0
    /\ winType' = "None"
    /\ isTurn' = [p \in PlayerIds |-> p = playerTurnByNbrFirstPlayer]
    /\ nbrFirstPlayer' =
          [nbrFirstPlayer EXCEPT ![playerTurnByNbrFirstPlayer] = @ + 1]
    /\ winners' = <<>>
    /\ losers' = <<>>
    /\ cardDistribution(nbr, rnd)
    /\ fault' = "none"
    /\ event' = "reset"
    /\ resets' = resets + 1
    /\ assigned' = playerTurnByNbrFirstPlayer
    /\ UNCHANGED <<asked, punto, nbr, players, options, pc, turnVars, result>>

\* Board.reset, called while no doATurn runs or while one is suspended
Reset(rnd) ==
    /\ pc \in {"idle", "ask"}
    /\ cards' = <<>>
    /\ hand' = [p \in PlayerIds |-> NoCard]
    /\ points' = [p \in PlayerIds |-> 0]
    /\ turn' = 0
    /\ winType' = "None"
    /\ isTurn' = [p \in PlayerIds |-> p = playerTurnByNbrFirstPlayer]
    /\ nbrFirstPlayer' =
          [nbrFirstPlayer EXCEPT ![playerTurnByNbrFirstPlayer] = @ + 1]
    /\ winners' = <<>>
    /\ losers' = <<>>
    /\ cardDistribution(nbr, rnd)
    /\ fault' = "none"
    /\ event' = "reset"
    /\ resets' = resets + 1
    /\ assigned' = playerTurnByNbrFirstPlayer
    /\ UNCHANGED <<asked, punto, nbr, players, options, pc, turnVars, result>>

\* ------------------------------------------------------------ specification

\* the cells the coordinate provider answers: those within `range` of the
\* origin, and one cell outside the window of the board
AskCells(range) ==
    ((-range)..range) \X ((-range)..range) \cup {<<MaxXY + 1, 0>>}

\* new Board with 1 to 5 players, one player at most flagged isTurn
Construct ==
    /\ pc = "new"
    /\ \E n \in (MinPlayers - 1)..(MaxPlayers + 1) :
        \E flags \in {{}} \cup {{p} : p \in 0..(n - 1)}, rand \in 0..(n - 1),
           rnd \in Randoms(n) :
            NewBoard(n, PlayerNames, flags, rand, rnd)

\* doATurn(auto) for either value of auto
Turn == pc = "idle" /\ UNCHANGED punto /\ \E a \in BOOLEAN : DoATurn(a)

\* the for loop of doATurn within the bounds of Spec
Loop == LoopStep(MaxCards, DrawSet(deck[cur], MaxDrawValue))

\* the answers of the coordinate provider within the bounds of Spec
Provide == pc = "ask" /\ \E resp \in Answers(AskCells(AskRange)) : Answer(resp)

\* reset() within the bounds of Spec
Restart == resets < MaxResets /\ \E rnd \in Randoms(nbr) : Reset(rnd)

Next == Construct \/ Turn \/ Loop \/ PlaceStep \/ Provide \/ Restart

Spec == Init /\ [][Next]_vars

\* ------------------------------------------------------------ direct calls

\* player.drawCard() called on player p: the top of the deck becomes the hand
DrawCard(p, tops) ==
    /\ pc = "idle"
    /\ deck[p] # {}
    /\ \E card \in tops :
          /\ deck' = [deck EXCEPT ![p] = @ \ {card}]
          /\ hand' = [hand EXCEPT ![p] = card]
    /\ event' = "drawCard"
    /\ UNCHANGED <<asked, assigned, punto, nbr, players, options, boardVars,
                   points, isTurn, color, nbrFirstPlayer, pc, turnVars, fault,
                   result, resets>>

\* what playCardOutcome leaves in cards, hand and result
Played(played) ==
    /\ cards' = played.cards
    /\ hand' = played.hand
    /\ result' = played.result

\* board.playCard(player p, p, the card p holds, x, y) called by a program,
\* as the tests of the repository do
PlayCard(p, x, y) ==
    /\ pc = "idle"
    /\ Played(playCardOutcome(p, p, hand[p], x, y))
    /\ held' = hand[p]
    /\ xy' = <<x, y>>
    /\ cur' = p
    /\ event' = "playCard"
    /\ UNCHANGED <<asked, assigned, punto, nbr, players, options, turn,
                   winType, winners, losers, deck, points, isTurn, color,
                   nbrFirstPlayer, pc, auto, first, fault, resets>>

\* the cells a program passes to playCard: those within `range` of the
\* origin, the corners of the window and a cell beyond each of its sides
ApiCells(range) ==
    ((-range)..range) \X ((-range)..range)
    \cup {<<MaxXY, MaxXY>>, <<MaxXY, -MaxXY>>, <<-MaxXY, MaxXY>>,
          <<-MaxXY, -MaxXY>>}
    \cup {<<MaxXY + 1, 0>>, <<-MaxXY - 1, 0>>, <<0, MaxXY + 1>>,
          <<0, -MaxXY - 1>>}

\* the index of the color col in Colors
colorIndex(col) == CHOOSE i \in 1..Len(Colors) : Colors[i] = col

\* the cards of S of the first of their colors: the shuffles explored by the
\* direct calls, which place cards whatever their color
FirstColor(S) ==
    {c \in S : \A e \in S : colorIndex(c.color) <= colorIndex(e.color)}

\* new Board for 2 players, the first of them flagged isTurn
ConstructApi ==
    /\ pc = "new"
    /\ NewBoard(MinPlayers, PlayerNames, {0}, 0, [i \in 1..MinPlayers |-> 0])

\* drawCard() of a player with an empty hand, while at most MaxApiCards cards
\* have left the decks
DrawApi ==
    /\ pc = "idle"
    /\ \E p \in Players :
          /\ hand[p] = NoCard
          /\ Len(cards) + Cardinality({q \in Players : hand[q] # NoCard})
                < MaxApiCards
          /\ DrawCard(p, FirstColor(DrawSet(deck[p], MaxDrawValue)))

\* playCard of a player who holds a card, at any of the cells
PlayApi ==
    /\ pc = "idle"
    /\ \E p \in Players, q \in ApiCells(AskRange) :
          hand[p] # NoCard /\ PlayCard(p, q[1], q[2])

NextApi == ConstructApi \/ DrawApi \/ PlayApi

SpecApi == Init /\ [][NextApi]_vars

\* board.playCard(player p, p, card, x, y) called while p holds no card, with
\* a Card object the program has kept: the test calls it a second time with
\* the card it has just played
PlayAgain(p, card, x, y) ==
    /\ pc = "idle"
    /\ hand[p] = NoCard
    /\ Played(playCardOutcome(p, p, card, x, y))
    /\ held' = card
    /\ xy' = <<x, y>>
    /\ cur' = p
    /\ event' = "playAgain"
    /\ UNCHANGED <<asked, assigned, punto, nbr, players, options, turn,
                   winType, winners, losers, deck, points, isTurn, color,
                   nbrFirstPlayer, pc, auto, first, fault, resets>>

\* playCard of a player with an empty hand, with the card placed last, at
\* any of the cells
PlayAgainApi ==
    /\ pc = "idle"
    /\ Len(cards) >= 1
    /\ \E p \in Players, q \in ApiCells(AskRange) :
          PlayAgain(p, cardOf(cards[Len(cards)]), q[1], q[2])

NextHand == ConstructApi \/ DrawApi \/ PlayApi \/ PlayAgainApi

SpecHand == Init /\ [][NextHand]_vars

\* ------------------------------------------------------------ lines

\* the cells of the row y = 0 or of the column x = 0, as far as one cell
\* beyond the window: the line the cards of cs lie on, either line when they
\* lie on both
LineCells(cs) ==
    {<<x, 0>> : x \in {z \in (-(MaxXY + 1))..(MaxXY + 1) :
                         \A i \in 1..Len(cs) : cs[i].y = 0}}
    \cup {<<0, y>> : y \in {z \in (-(MaxXY + 1))..(MaxXY + 1) :
                              \A i \in 1..Len(cs) : cs[i].x = 0}}

\* drawCard() of the player next in turn order, once the card drawn before
\* lies on the board; the shuffles bring the cards of value 1 up
DrawLine ==
    /\ pc = "idle"
    /\ Len(cards) < MaxLineCards
    /\ \A q \in Players : hand[q] = NoCard
    /\ \E p \in Players :
          /\ p = Len(cards) % nbr
          /\ DrawCard(p, FirstColor(DrawSet(deck[p], 1)))

\* playCard of the player who holds a card, at a cell of the row or column
PlayLine ==
    /\ pc = "idle"
    /\ \E p \in Players, q \in LineCells(cards) :
          hand[p] # NoCard /\ PlayCard(p, q[1], q[2])

NextLine == ConstructApi \/ DrawLine \/ PlayLine

SpecLine == Init /\ [][NextLine]_vars

\* ------------------------------------------------------------ neighbours

\* the cells a program passes to playCard to try the cells around the cards:
\* the origin first, then the cell right of the card placed last, the one
\* above that cell, the cell two steps right of the card, and the cell left
\* of the origin
AdjacentCells(cs) ==
    IF cs = <<>> THEN {<<0, 0>>}
    ELSE {<<cs[Len(cs)].x + 1, cs[Len(cs)].y>>,
          <<cs[Len(cs)].x + 1, cs[Len(cs)].y + 1>>,
          <<cs[Len(cs)].x + 2, cs[Len(cs)].y>>,
          <<-1, 0>>}

\* drawCard() of the player next in turn order, once the card drawn before
\* lies on the board; the shuffles bring the cards of value 1 up
DrawAdjacent ==
    /\ pc = "idle"
    /\ Len(cards) < MaxAdjacentCards
    /\ \A q \in Players : hand[q] = NoCard
    /\ \E p \in Players :
          /\ p = Len(cards) % nbr
          /\ DrawCard(p, FirstColor(DrawSet(deck[p], 1)))

\* playCard of the player who holds a card, at one of those cells
PlayAdjacent ==
    /\ pc = "idle"
    /\ \E p \in Players, q \in AdjacentCells(cards) :
          hand[p] # NoCard /\ PlayCard(p, q[1], q[2])

NextAdjacent == ConstructApi \/ DrawAdjacent \/ PlayAdjacent

SpecAdjacent == Init /\ [][NextAdjacent]_vars

\* ------------------------------------------------------------ runs

\* the cards of the deck d that are not of the colors cols, the lowest of
\* them: the shuffles that bring the cards of the shared color up in order
SharedTop(d, cols) ==
    {c \in d : /\ c.color \notin Range(cols)
               /\ \A e \in d : e.color \notin Range(cols) =>
                     \/ e.value > c.value
                     \/ e.value = c.value /\ e.k >= c.k}

\* the cells player p answers: the first player those of the row y = 0 right
\* of the origin, the others those left of it, the cell p right of it and
\* a cell above the row
RunCells(p) ==
    IF p = 0 THEN {<<x, 0>> : x \in 1..RunRight}
    ELSE {<<-x, 0>> : x \in 1..RunLeft} \cup {<<p, 0>>, <<-1, 1>>}

\* new Board for 3 players, the first of them flagged isTurn
ConstructRun ==
    /\ pc = "new"
    /\ NewBoard(3, PlayerNames, {0}, 0, [i \in 1..3 |-> 0])

\* doATurn() with players who answer for themselves
TurnRun == pc = "idle" /\ UNCHANGED punto /\ DoATurn(FALSE)

\* the for loop of doATurn, the cards of the shared color drawn first
LoopRun ==
    /\ pc = "loop"
    /\ LoopStep(MaxRunCards, SharedTop(deck[cur], color[cur]))

\* the players answer cells of the row
ProvideRun ==
    /\ pc = "ask"
    /\ \E resp \in {a \in Answers(RunCells(cur)) : a.kind = "cell"} :
          Answer(resp)

NextRun == ConstructRun \/ TurnRun \/ LoopRun \/ PlaceStep \/ ProvideRun

SpecRun == Init /\ [][NextRun]_vars

\* ------------------------------------------------------------ blocked games

\* the cells player p answers in a game that ends blocked: cells of the rows
\* y = 0 and y = 1 around the origin
BlockedCells(p) ==
    IF p = 0 THEN {<<1, 0>>, <<2, 0>>}
    ELSE IF p = 1 THEN {<<1, 0>>, <<0, 1>>, <<1, 1>>, <<2, 1>>}
    ELSE {<<-1, 0>>, <<-1, 1>>, <<0, 1>>, <<2, 1>>}

\* the for loop of doATurn, the cards of the shared color drawn first
LoopBlocked ==
    /\ pc = "loop"
    /\ LoopStep(MaxBlockedCards, SharedTop(deck[cur], color[cur]))

\* the players answer one of their cells, or refuse to answer
ProvideOrRefuse ==
    /\ pc = "ask"
    /\ \E resp \in {a \in Answers(BlockedCells(cur)) : a.kind # "auto"} :
          Answer(resp)

NextBlocked ==
    ConstructRun \/ TurnRun \/ LoopBlocked \/ PlaceStep \/ ProvideOrRefuse

SpecBlocked == Init /\ [][NextBlocked]_vars

\* ------------------------------------------------------------ squares

\* the cells of the square of 3 x 3 cells player p fills, row after row: the
\* first player from the origin upwards, the second below it
SquareOf(p) ==
    [i \in 1..9 |-> <<(i - 1) % 3,
                      IF p = 0 THEN (i - 1) \div 3 ELSE -1 - ((i - 1) \div 3)>>]

\* the number of cards of cs that player p has played
playedBy(cs, p) == Cardinality({i \in 1..Len(cs) : cs[i].playedBy = p})

\* the cell player p answers: the next cell of its square, none when the
\* square is full
SquareCells(p) ==
    IF playedBy(cards, p) < 9 THEN {SquareOf(p)[playedBy(cards, p) + 1]} ELSE {}

\* the lowest card of each of the colors cols in the deck d: the shuffles
\* that bring the cards of a color up in ascending order
LowestOf(d, cols) ==
    {c \in d : /\ c.color \in cols
               /\ \A e \in d : e.color = c.color =>
                     \/ e.value > c.value
                     \/ e.value = c.value /\ e.k >= c.k}

\* the for loop of doATurn: the first player draws the cards of its first
\* color, the second player those of either of its colors
LoopSquares ==
    /\ pc = "loop"
    /\ LoopStep(MaxSquareCards,
                LowestOf(deck[cur], IF cur = 0 THEN {color[cur][1]}
                                    ELSE Range(color[cur])))

\* the players answer the next cell of their square, or refuse to answer
ProvideSquares ==
    /\ pc = "ask"
    /\ \E resp \in {a \in Answers(SquareCells(cur)) : a.kind # "auto"} :
          Answer(resp)

NextSquares ==
    ConstructApi \/ TurnRun \/ LoopSquares \/ PlaceStep \/ ProvideSquares

SpecSquares == Init /\ [][NextSquares]_vars

\* ------------------------------------------------------------ resets

\* new Board with 2, 3 or 4 players, one player at most flagged isTurn, the
\* random indices of cardDistribution all 0
ConstructResets ==
    /\ pc = "new"
    /\ \E n \in MinPlayers..MaxPlayers, names \in NameLists :
        \E flags \in {{}} \cup {{p} : p \in 0..(n - 1)}, rand \in 0..(n - 1) :
            NewBoard(n, names, flags, rand, [i \in 1..n |-> 0])

\* the for loop of doATurn in a game of at most MaxResetCards placements, the
\* cards drawn as in LoopSquares
LoopResets ==
    /\ pc = "loop"
    /\ LoopStep(MaxResetCards,
                LowestOf(deck[cur], IF cur = 0 THEN {color[cur][1]}
                                    ELSE Range(color[cur])))

\* reset() called at most MaxResetCalls times, between two doATurn calls or
\* while doATurn waits for coordinates
RestartResets ==
    /\ resets < MaxResetCalls
    /\ Reset([i \in 1..nbr |-> 0])

NextResets ==
    \/ ConstructResets
    \/ TurnRun
    \/ LoopResets
    \/ PlaceStep
    \/ ProvideSquares
    \/ RestartResets

SpecResets == Init /\ [][NextResets]_vars

\* ------------------------------------------------------------ long games

\* the square of 6 x 6 cells from the origin upwards
FillSquare == (0..MaxXY) \X (0..MaxXY)

\* the cell q comes no later than the cell r, row after row from the origin
before(q, r) == q[2] < r[2] \/ (q[2] = r[2] /\ q[1] <= r[1])

\* the first of the cells of S in that order
FirstCell(S) == {q \in S : \A r \in S : before(q, r)}

\* the cells of S on which no card of cs lies
emptyCells(cs, S) ==
    {q \in S : \A i \in 1..Len(cs) : ~(cs[i].x = q[1] /\ cs[i].y = q[2])}

\* the picks of determineCardCoordinates explored in a long game: of the
\* available cells of the square the first empty one, the first one when
\* none is empty, any available cell when none lies in the square
FillPicks(cs, avail) ==
    IF emptyCells(cs, avail \cap FillSquare) # {}
    THEN FirstCell(emptyCells(cs, avail \cap FillSquare))
    ELSE IF avail \cap FillSquare # {}
    THEN FirstCell(avail \cap FillSquare)
    ELSE avail

\* the card c comes no later than the card e: by value, copy, then color
lower(c, e) ==
    \/ c.value < e.value
    \/ c.value = e.value /\ c.k < e.k
    \/ c.value = e.value /\ c.k = e.k
          /\ colorIndex(c.color) <= colorIndex(e.color)

\* the card c comes no later than the card e: by value from the highest
\* down, copy, then color
higher(c, e) ==
    \/ c.value > e.value
    \/ c.value = e.value /\ c.k < e.k
    \/ c.value = e.value /\ c.k = e.k
          /\ colorIndex(c.color) <= colorIndex(e.color)

\* the shuffles explored in a long game leave every deck sorted, all of them
\* with the lowest cards on top or all of them with the highest: the top of
\* the deck d, the first card of the game showing which
FillTop(d, cs) ==
    {c \in d : \/ (cs = <<>> \/ cs[1].value = 1) /\ \A e \in d : lower(c, e)
               \/ (cs = <<>> \/ cs[1].value # 1) /\ \A e \in d : higher(c, e)}

\* doATurn(true): automatic play
TurnAuto == pc = "idle" /\ UNCHANGED punto /\ DoATurn(TRUE)

\* the for loop of doATurn in a game that may go on to a full board
LoopFill == pc = "loop" /\ LoopStep(FullBoard, FillTop(deck[cur], cards))

\* the do-while loop of doATurn, the cell picked by FillPicks
PlaceFill ==
    /\ pc = "place"
    /\ PlaceWith(FillPicks(cards, availableCoordinates(cards, held.value)))

\* new Board with 2, 3 or 4 players, the first or the last of them flagged
\* isTurn, the random indices of cardDistribution all 0
ConstructFill ==
    /\ pc = "new"
    /\ \E n \in MinPlayers..MaxPlayers :
          \E f \in {0, n - 1} :
              NewBoard(n, PlayerNames, {f}, 0, [i \in 1..n |-> 0])

NextFill == ConstructFill \/ TurnAuto \/ LoopFill \/ PlaceFill

SpecFill == Init /\ [][NextFill]_vars

\* ------------------------------------------------------------ drained decks

\* the top of the deck d when the shuffle has left the lowest cards on top
DrainTop(d) == {c \in d : \A e \in d : lower(c, e)}

\* player.drawCard() called by a program on one player, again and again
\* before any card is placed: each call replaces the hand by the card drawn
DrawDrain ==
    /\ pc = "idle"
    /\ cards = <<>>
    /\ \E p \in Players :
          /\ \A q \in Players \ {p} : hand[q] = NoCard
          /\ DrawCard(p, DrainTop(deck[p]))

\* board.playCard of the player whose deck the program has emptied: the last
\* card drawn goes to the origin
PlayDrain ==
    /\ pc = "idle"
    /\ \E p \in Players :
          /\ deck[p] = {}
          /\ hand[p] # NoCard
          /\ PlayCard(p, 0, 0)

NextDrain ==
    \/ ConstructFill
    \/ DrawDrain
    \/ PlayDrain
    \/ TurnAuto
    \/ LoopFill
    \/ PlaceFill

SpecDrain == Init /\ [][NextDrain]_vars

\* ------------------------------------------------------------ automatic games

\* the picks of determineCardCoordinates explored in an automatic game: any
\* available cell for the first MaxFreeCards cards, the picks of a long game
\* after them
GamePicks(cs, avail) ==
    IF Len(cs) < MaxFreeCards THEN avail ELSE FillPicks(cs, avail)

\* Board.isGameOver
isGameOver == winType # "None"

\* Punto.playUntilGameOver with auto = true, one pass of
\* `while (!this._board.isGameOver())`: doATurn(true)
playUntilGameOver ==
    /\ pc = "idle"
    /\ ~isGameOver
    /\ DoATurn(TRUE)
    /\ UNCHANGED punto

\* the do-while loop of doATurn, the cell picked by GamePicks
PlaceGame ==
    /\ pc = "place"
    /\ PlaceWith(GamePicks(cards, availableCoordinates(cards, held.value)))

NextGame == ConstructFill \/ playUntilGameOver \/ LoopFill \/ PlaceGame

\* the do-while loop of doATurn leaves its head: the card is placed or the
\* game ends
placeLeaves == pc = "place" /\ pc' \in {"loop", "idle"}

\* Punto.playGame() on a new board.  Automatic play awaits nothing but the
\* game's own promises, so each of its steps is taken once it can be: the
\* construction, the next doATurn of playUntilGameOver, the next pass of the
\* for loop and the do-while loop, whose head always has a cell to go on with
\* (determineCardCoordinates picks among the available cells).
SpecGame ==
    /\ Init
    /\ [][NextGame]_vars
    /\ WF_vars(ConstructFill)
    /\ WF_vars(playUntilGameOver)
    /\ WF_vars(LoopFill)
    /\ WF_pc(placeLeaves)

\* ------------------------------------------------------------ turn budget

\* the values of nbrTurn passed to playGame: -1 (the default), 0 and the
\* budgets up to MaxBudget
Budgets == -1..MaxBudget

\* Punto.playGame(nbrTurn) is called, no playGame running
PlayGame(nbrTurn) ==
    /\ pc = "idle"
    /\ punto.state # "playing"
    /\ punto' = [state |-> "playing", nbrTurn |-> nbrTurn, i |-> 0]
    /\ event' = "playGame"
    /\ UNCHANGED <<asked, assigned, nbr, players, options, boardVars,
                   playerVars, pc, turnVars, fault, result, resets>>

\* playGame leaves its loop and returns
playGameReturns ==
    /\ punto' = [punto EXCEPT !.state = "returned"]
    /\ event' = "played"
    /\ UNCHANGED <<asked, assigned, nbr, players, options, boardVars,
                   playerVars, pc, turnVars, fault, result, resets>>

\* a playATurn that does not look at isGameOver()
playATurnBlind ==
    /\ pc = "idle"
    /\ punto.state = "playing"
    /\ punto.nbrTurn > 0
    /\ IF punto.i < punto.nbrTurn
       THEN DoATurn(TRUE) /\ punto' = [punto EXCEPT !.i = @ + 1]
       ELSE playGameReturns

\* Punto.playATurn(nbrTurn) with auto = true, one pass of its for loop:
\* `i < nbrTurn`, the break on isGameOver(), doATurn; i counts the calls
playATurn ==
    /\ pc = "idle"
    /\ punto.state = "playing"
    /\ punto.nbrTurn > 0
    /\ IF punto.i < punto.nbrTurn /\ ~isGameOver
       THEN DoATurn(TRUE) /\ punto' = [punto EXCEPT !.i = @ + 1]
       ELSE playGameReturns

\* Punto.playUntilGameOver() as playGame calls it for nbrTurn <= 0, one pass
\* of its while loop, which has no counter
playToTheEnd ==
    /\ pc = "idle"
    /\ punto.state = "playing"
    /\ punto.nbrTurn <= 0
    /\ IF ~isGameOver
       THEN DoATurn(TRUE) /\ UNCHANGED punto
       ELSE playGameReturns

\* playGame called with any of the budgets
PlayGameBudget == \E nbrTurn \in Budgets : PlayGame(nbrTurn)

NextBudget ==
    \/ ConstructFill
    \/ PlayGameBudget
    \/ playATurn
    \/ playToTheEnd
    \/ LoopFill
    \/ PlaceFill

SpecBudget == Init /\ [][NextBudget]_vars

\* ------------------------------------------------------------ sessions

\* a playATurn that does not await doATurn: the next call is made while the
\* previous one waits for coordinates
playATurnEager(a) ==
    /\ pc \in {"idle", "ask"}
    /\ punto.state = "playing"
    /\ punto.nbrTurn > 0
    /\ IF punto.i < punto.nbrTurn /\ ~isGameOver
       THEN /\ pc' = "loop"
            /\ cur' = 0
            /\ auto' = a
            /\ fault' = "none"
            /\ event' = "turn"
            /\ punto' = [punto EXCEPT !.i = @ + 1]
            /\ UNCHANGED <<asked, assigned, nbr, players, options, boardVars,
                           playerVars, first, held, xy, result, resets>>
       ELSE pc = "idle" /\ playGameReturns

\* Punto.playATurn(nbrTurn), one pass of its for loop, the public field
\* `auto` of the Punto being a: `await this._board.doATurn(this.auto, ...)`
playATurnAs(a) ==
    /\ pc = "idle"
    /\ punto.state = "playing"
    /\ punto.nbrTurn > 0
    /\ IF punto.i < punto.nbrTurn /\ ~isGameOver
       THEN DoATurn(a) /\ punto' = [punto EXCEPT !.i = @ + 1]
       ELSE playGameReturns

\* Punto.playUntilGameOver(), one pass of its while loop, the public field
\* `auto` of the Punto being a
playToTheEndAs(a) ==
    /\ pc = "idle"
    /\ punto.state = "playing"
    /\ punto.nbrTurn <= 0
    /\ IF ~isGameOver
       THEN DoATurn(a) /\ UNCHANGED punto
       ELSE playGameReturns

\* playATurn of a Punto that plays automatically or asks its players
playATurnSession == \E a \in BOOLEAN : playATurnAs(a)

\* playUntilGameOver of a Punto that plays automatically or asks its players
playToTheEndSession == \E a \in BOOLEAN : playToTheEndAs(a)

NextSession ==
    \/ ConstructApi
    \/ PlayGameBudget
    \/ playATurnSession
    \/ playToTheEndSession
    \/ LoopResets
    \/ PlaceFill
    \/ ProvideSquares

SpecSession == Init /\ [][NextSession]_vars

\* ------------------------------------------------------------ card objects

\* the one Card object `card` as the list cs shows it: placeCard writes x, y,
\* playedTurn, playedIn and playedBy into the object, so every entry of the
\* list that is this object shows what was written last
sameObject(cs, card) ==
    [j \in 1..Len(cs) |->
        IF cardOf(cs[j]) = card
        THEN cs[Max({i \in 1..Len(cs) : cardOf(cs[i]) = card})]
        ELSE cs[j]]

\* the Card objects a program can pass to playCard: the cards in the hands,
\* the cards the shuffles may have left on top of the decks (player.deck) and
\* the cards on the board (board.cards)
CardObjects ==
    {hand[q] : q \in {r \in Players : hand[r] # NoCard}}
    \cup UNION {FirstColor(DrawSet(deck[q], MaxDrawValue)) : q \in Players}
    \cup {cardOf(cards[i]) : i \in 1..Len(cards)}

\* what playCard leaves in cards, hand and result when it was given the
\* object `card`
PlayedObject(played, card) ==
    /\ cards' = sameObject(played.cards, card)
    /\ hand' = played.hand
    /\ result' = played.result

\* board.playCard(player p, p, card, x, y) called by a program with any Card
\* object
PlayObject(p, card, x, y) ==
    /\ pc = "idle"
    /\ PlayedObject(playCardOutcome(p, p, card, x, y), card)
    /\ held' = card
    /\ xy' = <<x, y>>
    /\ cur' = p
    /\ event' = "playCard"
    /\ UNCHANGED <<asked, assigned, punto, nbr, players, options, turn,
                   winType, winners, losers, deck, points, isTurn, color,
                   nbrFirstPlayer, pc, auto, first, fault, resets>>

\* the cells passed with the objects: the origin, a cell next to it and a
\* cell beyond the window
ObjectCells == {<<0, 0>>, <<1, 0>>, <<MaxXY + 1, 0>>}

\* playCard of any player with any of the objects at any of these cells,
\* while fewer than MaxObjectCards cards lie on the board
PlayObjects ==
    /\ pc = "idle"
    /\ Len(cards) < MaxObjectCards
    /\ \E p \in Players, card \in CardObjects, q \in ObjectCells :
          PlayObject(p, card, q[1], q[2])

NextObjects == ConstructApi \/ DrawApi \/ PlayObjects

SpecObjects == Init /\ [][NextObjects]_vars

\* ------------------------------------------------------------ tokens

\* the cards of the color col and the value v
ofKind(col, v) ==
    {[color |-> col, value |-> v, k |-> k] : k \in 1..NbrCopies}

\* the number of cards of the set `kind` in the decks, the hands and on the
\* board, each deck, hand and board entry counted for itself
tokens(kind) ==
    Cardinality({e \in PlayerIds \X kind : e[2] \in deck[e[1]]})
    + Cardinality({p \in PlayerIds : hand[p] \in kind})
    + Cardinality({i \in 1..Len(cards) : cardOf(cards[i]) \in kind})

\* C1: once a board of 2, 3 or 4 players exists, the draw piles, the hands
\* and the board hold 72 tokens together, two of each color and value, in
\* every state that doATurn steps and resets reach.
C1_TokenConservation ==
    nbr \in MinPlayers..MaxPlayers =>
        /\ tokens(CardIds) = FullBoard
        /\ \A col \in ColorSet, v \in Values : tokens(ofKind(col, v)) = NbrCopies

\* a 3-player game that was reset, with a card on the board and one in a hand
C1_Witness ==
    /\ nbr = 3
    /\ resets >= 1
    /\ Len(cards) >= 1
    /\ \E p \in Players : hand[p] # NoCard

\* C5: a constructor called with fewer than 2 or more than 4 players throws
\* 'The number of players must be between 2 and 4.' and leaves no player and
\* no token behind; called with 2, 3 or 4 it does not throw that error.
C5_PlayerCountChecked ==
    /\ (asked # 0 /\ (asked < 2 \/ asked > 4)) =>
          /\ fault = "The number of players must be between 2 and 4."
          /\ nbr = 0
          /\ \A p \in PlayerIds : deck[p] = {} /\ color[p] = <<>>
    /\ asked \in 2..4 =>
          /\ fault # "The number of players must be between 2 and 4."
          /\ nbr = asked

\* the constructor has thrown for 5 players
C5_Witness ==
    /\ asked = MaxPlayers + 1
    /\ fault = "The number of players must be between 2 and 4."

\* the cards of the color col
ofColor(col) ==
    {[color |-> col, value |-> v, k |-> k] : v \in Values, k \in 1..NbrCopies}

\* the colors no player has
unassigned == ColorSet \ UNION {Range(color[p]) : p \in Players}

\* C6: right after construction and right after every reset, 2 players hold
\* 36 cards each, two whole colors; 3 players hold 24 each, their own color
\* and 6 cards of the one color nobody has, which is split 6/6/6; 4 players
\* hold the 18 cards of one color each; no color belongs to two players and
\* each color of a player is in the deck with two cards of each value.
C6_Distribution ==
    event \in {"new", "reset"} =>
        /\ \A p \in Players, q \in Players :
              p # q => Range(color[p]) \cap Range(color[q]) = {}
        /\ \A p \in Players :
              /\ Len(color[p]) = Cardinality(Range(color[p]))
              /\ \A col \in Range(color[p]), v \in Values :
                    Cardinality(deck[p] \cap ofKind(col, v)) = NbrCopies
        /\ nbr = 2 =>
              \A p \in Players :
                 /\ Cardinality(deck[p]) = 36
                 /\ Len(color[p]) = 2
                 /\ deck[p] = ofColor(color[p][1]) \cup ofColor(color[p][2])
        /\ nbr = 3 =>
              /\ Cardinality(unassigned) = 1
              /\ \A p \in Players :
                    /\ Cardinality(deck[p]) = 24
                    /\ Len(color[p]) = 1
                    /\ ofColor(color[p][1]) \subseteq deck[p]
                    /\ \E col \in unassigned :
                          /\ Cardinality(deck[p] \cap ofColor(col)) = NbrShared
                          /\ deck[p] \subseteq
                                ofColor(color[p][1]) \cup ofColor(col)
              /\ \A col \in unassigned :
                    ofColor(col) \subseteq UNION {deck[p] : p \in Players}
              /\ \A p \in Players, q \in Players :
                    p # q => deck[p] \cap deck[q] = {}
        /\ nbr = 4 =>
              \A p \in Players :
                 /\ Cardinality(deck[p]) = 18
                 /\ Len(color[p]) = 1
                 /\ deck[p] = ofColor(color[p][1])

\* a 3-player board that has just been reset
C6_Witness == event = "reset" /\ nbr = 3 /\ resets >= 1

\* C4: when the coordinate provider refuses, doATurn ends the game with Drop,
\* no winner, every player a loser and the scores as they were.
C4_RefusalYieldsDrop ==
    [][event' = "refusal" =>
          /\ winType' = "Drop"
          /\ winners' = <<>>
          /\ losers' = playerList(nbr)
          /\ points' = points]_vars

\* ------------------------------------------------------------ placement

\* the cards of cs that lie on the cell (x, y)
cardsAt(cs, x, y) == {i \in 1..Len(cs) : cs[i].x = x /\ cs[i].y = y}

\* C7: whatever the board, a card is refused on a cell that holds a card of
\* its value or of a higher one: cardCanBePlaced is false for that cell, and
\* playCard called for a held card there returns 'The card could not be
\* placed.' and leaves the board as it was.
C7_StackingRejection ==
    /\ [](\A i \in 1..Len(cards), v \in Values :
            cards[i].value >= v =>
                ~cardCanBePlaced(cards, v, cards[i].x, cards[i].y))
    /\ [][(/\ event' = "playCard"
           /\ held' # NoCard
           /\ \E i \in cardsAt(cards, xy'[1], xy'[2]) :
                 cards[i].value >= held'.value)
          => (/\ result' = "The card could not be placed."
              /\ cards' = cards
              /\ hand' = hand)]_vars

\* playCard has refused a held card on a cell with a card as high as it
C7_Witness ==
    /\ event = "playCard"
    /\ held # NoCard
    /\ result = "The card could not be placed."
    /\ \E i \in cardsAt(cards, xy[1], xy[2]) : cards[i].value >= held.value

\* C8: a cell whose cards are all lower than the held card takes it, even
\* when none of the cells around it holds a card: cardCanBePlaced is true,
\* and playCard returns 'The card was successfully placed.', appends the card
\* at that cell and leaves the cards already placed where they are.
C8_StackingAcceptance ==
    /\ [](\A i \in 1..Len(cards), v \in Values :
            (\A j \in cardsAt(cards, cards[i].x, cards[i].y) :
                cards[j].value < v)
            => cardCanBePlaced(cards, v, cards[i].x, cards[i].y))
    /\ [][(/\ event' = "playCard"
           /\ held' # NoCard
           /\ cardsAt(cards, xy'[1], xy'[2]) # {}
           /\ \A j \in cardsAt(cards, xy'[1], xy'[2]) :
                 cards[j].value < held'.value)
          => (/\ result' = "The card was successfully placed."
              /\ Len(cards') = Len(cards) + 1
              /\ SubSeq(cards', 1, Len(cards)) = cards
              /\ cardOf(cards'[Len(cards')]) = held'
              /\ cards'[Len(cards')].x = xy'[1]
              /\ cards'[Len(cards')].y = xy'[2])]_vars

\* playCard has put a card on the only card of the board, at (0, 0)
C8_Witness ==
    /\ event = "playCard"
    /\ result = "The card was successfully placed."
    /\ Len(cards) = 2
    /\ cards[1].x = 0 /\ cards[1].y = 0
    /\ cards[2].x = 0 /\ cards[2].y = 0
    /\ cards[1].value < cards[2].value

\* the cells of the window and the two rings of cells around it
Beyond == (-(MaxXY + 2))..(MaxXY + 2)

\* C10: cardCanBePlaced refuses every cell with |x| > 5 or |y| > 5 on every
\* board, and on the empty board it takes every cell with |x| <= 5 and
\* |y| <= 5, whatever the value of the card; playCard places accordingly.
C10_WindowBounds ==
    /\ [](\A x \in Beyond, y \in Beyond, v \in Values :
            /\ (Abs(x) > MaxXY \/ Abs(y) > MaxXY) =>
                  ~cardCanBePlaced(cards, v, x, y)
            /\ (boardIsEmpty(cards) /\ Abs(x) <= MaxXY /\ Abs(y) <= MaxXY) =>
                  cardCanBePlaced(cards, v, x, y))
    /\ [][(event' = "playCard" /\ held' # NoCard) =>
             /\ (Abs(xy'[1]) > MaxXY \/ Abs(xy'[2]) > MaxXY) =>
                   result' = "The card could not be placed."
             /\ (boardIsEmpty(cards) /\ Abs(xy'[1]) <= MaxXY
                                     /\ Abs(xy'[2]) <= MaxXY) =>
                   result' = "The card was successfully placed."]_vars

\* the first card went to a corner of the window and playCard has then
\* refused a card on a cell beyond the window
C10_Witness ==
    /\ event = "playCard"
    /\ held # NoCard
    /\ result = "The card could not be placed."
    /\ Abs(xy[1]) > MaxXY \/ Abs(xy[2]) > MaxXY
    /\ Len(cards) = 1
    /\ Abs(cards[1].x) = MaxXY /\ Abs(cards[1].y) = MaxXY

\* the width of the bounding box of the cards of cs on the x axis, once a
\* card lies at x
spanX(cs, x) ==
    Max({cs[i].x : i \in 1..Len(cs)} \cup {x})
    - Min({cs[i].x : i \in 1..Len(cs)} \cup {x})

\* the same on the y axis
spanY(cs, y) ==
    Max({cs[i].y : i \in 1..Len(cs)} \cup {y})
    - Min({cs[i].y : i \in 1..Len(cs)} \cup {y})

\* C9 (over the cells of the row y = 0, the column x = 0 and the diagonal
\* x = y): cardCanBePlaced is false for every cell that would bring the bounding
\* box of the placed cards to a width or a height of 6 or more, the cap turns
\* down no other cell of the window, playCard refuses a card on such a cell,
\* and so the placed cards never span more than 6 columns or 6 rows.
C9_BoundingBoxCap ==
    /\ [](\A x \in Beyond, y \in Beyond :
            (x = 0 \/ y = 0 \/ x = y) =>
            /\ (spanX(cards, x) >= LineLimit \/ spanY(cards, y) >= LineLimit)
                  => \A v \in Values : ~cardCanBePlaced(cards, v, x, y)
            /\ (/\ spanX(cards, x) < LineLimit
                /\ spanY(cards, y) < LineLimit
                /\ Abs(x) <= MaxXY
                /\ Abs(y) <= MaxXY)
                  => ~lineExceedsLimit(cards, x, y, LineLimit))
    /\ [](\A i \in 1..Len(cards) :
            /\ spanX(cards, cards[i].x) <= LineLimit - 1
            /\ spanY(cards, cards[i].y) <= LineLimit - 1)
    /\ [][(/\ event' = "playCard"
           /\ held' # NoCard
           /\ \/ spanX(cards, xy'[1]) >= LineLimit
              \/ spanY(cards, xy'[2]) >= LineLimit)
          => (result' = "The card could not be placed." /\ cards' = cards)]_vars

\* six cards fill a line of six cells and playCard has refused a card on the
\* cell of the window next to the line
C9_Witness ==
    /\ event = "playCard"
    /\ held # NoCard
    /\ result = "The card could not be placed."
    /\ Len(cards) = LineLimit
    /\ Abs(xy[1]) <= MaxXY /\ Abs(xy[2]) <= MaxXY
    /\ \/ spanX(cards, cards[1].x) = LineLimit - 1 /\ spanX(cards, xy[1]) = LineLimit
       \/ spanY(cards, cards[1].y) = LineLimit - 1 /\ spanY(cards, xy[2]) = LineLimit

\* ------------------------------------------------------------ runs of cards

\* the card cs[i] is the visible one of its cell: no card was placed on it
visible(cs, i) ==
    \A j \in (i + 1)..Len(cs) : cs[j].x # cs[i].x \/ cs[j].y # cs[i].y

\* the steps along a row, a column and the two diagonals
Directions == {<<1, 0>>, <<0, 1>>, <<1, 1>>, <<1, -1>>}

\* the length of a qualifying run in a game of n players
requiredLength(n) == IF n = 2 THEN SeriesLen2 ELSE SeriesLen34

\* player p owns a qualifying run: `length` cells in a line, one after the
\* other, whose visible cards are all of one color and all played by p
ownsRun(cs, p, length) ==
    \E i \in 1..Len(cs), d \in Directions :
        \A k \in 0..(length - 1) :
            \E j \in 1..Len(cs) :
                /\ visible(cs, j)
                /\ cs[j].x = cs[i].x + k * d[1]
                /\ cs[j].y = cs[i].y + k * d[2]
                /\ cs[j].color = cs[i].color
                /\ cs[j].playedBy = p

\* the players who own a qualifying run
runOwners == {p \in Players : ownsRun(cards, p, requiredLength(nbr))}

\* C2: after a placement made by doATurn, when exactly one player owns a
\* qualifying run, the game has ended with Win, that player the only winner
\* and all the others losers.
C2_RunWinCompleteness ==
    event \in {"placed", "decided"} =>
        \A p \in Players :
            runOwners = {p} =>
                /\ winType = "Win"
                /\ winners = <<p>>
                /\ Len(losers) = nbr - 1
                /\ Range(losers) = Players \ {p}

\* C3: when doATurn ends the game with Win after a placement that leaves the
\* game unblocked, the only winner owns a qualifying run.
C3_RunWinSoundness ==
    (/\ event = "decided"
     /\ winType = "Win"
     /\ Len(cards) < FullBoard
     /\ hand[cur] = NoCard)
    => (Len(winners) = 1 /\ ownsRun(cards, winners[1], requiredLength(nbr)))

\* ------------------------------------------------------------ failed plays

\* C11: playCard called for a player whose hand is empty returns 'The player
\* does not have the card in hand.' and changes nothing: the placed cards
\* with their coordinates, turns and owners, the turn counter, the outcome,
\* the hands and the decks are as before the call.
C11_EmptyHandPlay ==
    [][event' = "playAgain" =>
          /\ result' = "The player does not have the card in hand."
          /\ cards' = cards
          /\ turn' = turn
          /\ winType' = winType
          /\ winners' = winners
          /\ losers' = losers
          /\ hand' = hand
          /\ deck' = deck]_vars

\* playCard was called for a player with an empty hand, with a card that
\* lies on the board and a cell that would take a card of its value
C11_Witness ==
    /\ event = "playAgain"
    /\ hand[cur] = NoCard
    /\ result = "The player does not have the card in hand."
    /\ \E i \in 1..Len(cards) : cardOf(cards[i]) = held
    /\ cardCanBePlaced(cards, held.value, xy[1], xy[2])

\* C12: whenever playCard returns 'The card could not be placed.' it has
\* thrown nothing and changed nothing: the placed cards are the same list,
\* the card is not among them (it has no coordinates, turn or owner), the
\* player still holds it, and the turn counter, the outcome, the winners and
\* the losers are as before the call.
C12_IllegalPlayUnchanged ==
    [][(event' = "playCard" /\ result' = "The card could not be placed.") =>
          /\ fault' = fault
          /\ cards' = cards
          /\ \A i \in 1..Len(cards') : cardOf(cards'[i]) # held'
          /\ held' # NoCard
          /\ hand' = hand
          /\ hand'[cur'] = held'
          /\ turn' = turn
          /\ winType' = winType
          /\ winners' = winners
          /\ losers' = losers]_vars

\* playCard has refused the card a player holds on a board that holds a card
C12_Witness ==
    /\ event = "playCard"
    /\ result = "The card could not be placed."
    /\ held # NoCard
    /\ hand[cur] = held
    /\ Len(cards) >= 1

\* ------------------------------------------------------------ blocked endings

\* the runs of `length` cells player p owns: a first card and a direction
\* such that the `length` cells from it on hold visible cards of one color,
\* all played by p
runsOf(cs, p, length) ==
    {r \in (1..Len(cs)) \X Directions :
        /\ visible(cs, r[1])
        /\ \A k \in 0..(length - 1) :
              \E j \in 1..Len(cs) :
                  /\ visible(cs, j)
                  /\ cs[j].x = cs[r[1]].x + k * r[2][1]
                  /\ cs[j].y = cs[r[1]].y + k * r[2][2]
                  /\ cs[j].color = cs[r[1]].color
                  /\ cs[j].playedBy = p}

RECURSIVE runValue(_, _, _)
\* the sum of the values of the visible cards of the first k cells of run r
runValue(cs, r, k) ==
    IF k = 0 THEN 0
    ELSE LET j == CHOOSE i \in 1..Len(cs) :
                      /\ visible(cs, i)
                      /\ cs[i].x = cs[r[1]].x + (k - 1) * r[2][1]
                      /\ cs[i].y = cs[r[1]].y + (k - 1) * r[2][2]
         IN  cs[j].value + runValue(cs, r, k - 1)

RECURSIVE totalValue(_, _)
\* the sum of the values of the runs of the set R
totalValue(cs, R) ==
    IF R = {} THEN 0
    ELSE LET r == CHOOSE e \in R : TRUE
         IN  runValue(cs, r, BlockedLen) + totalValue(cs, R \ {r})

\* the players who own a run of 3 cells
qualifiers == {p \in Players : runsOf(cards, p, BlockedLen) # {}}

\* doATurn has ended the game by the rule of the blocked game
blockedEnding == event \in {"refusal", "blocked", "nodeck"}

\* C13: when the game is blocked and exactly one player owns runs of 3
\* cells, one run or more, the game ends with Win, that player the only
\* winner and all the others losers.
C13_BlockedSingleQualifier ==
    blockedEnding =>
        \A p \in Players :
            qualifiers = {p} =>
                /\ winType = "Win"
                /\ winners = <<p>>
                /\ Range(losers) = Players \ {p}

\* C15: when the game is blocked and no player owns a run of 3 cells, the
\* game ends with Draw, no winner, every player a loser and the scores as
\* they were.
C15_BlockedDraw ==
    [][(event' \in {"refusal", "blocked", "nodeck"}
        /\ \A p \in Players : runsOf(cards', p, BlockedLen) = {})
       => (/\ winType' = "Draw"
           /\ winners' = <<>>
           /\ losers' = playerList(nbr)
           /\ points' = points)]_vars

\* the number of runs of 3 cells player p owns
runCount(p) == Cardinality(runsOf(cards, p, BlockedLen))

\* the sum of the values of the runs of 3 cells player p owns
runSum(p) == totalValue(cards, runsOf(cards, p, BlockedLen))

\* the qualifiers with the most runs
mostRuns == {p \in qualifiers : \A q \in qualifiers : runCount(q) <= runCount(p)}

\* those of them whose runs have the lowest sum of values
lowestSum == {p \in mostRuns : \A q \in mostRuns : runSum(p) <= runSum(q)}

\* C14: when the game is blocked and two players or more own runs of 3
\* cells, the game ends with Win; the winners are the players with the most
\* runs, among them those whose runs have the lowest sum of values, all of
\* them when they tie; every other player is a loser.
C14_BlockedTieBreak ==
    (blockedEnding /\ Cardinality(qualifiers) >= 2) =>
        /\ winType = "Win"
        /\ Range(winners) = lowestSum
        /\ Range(losers) = Players \ lowestSum

\* C16: the step that ends a game with Win adds exactly 1 to the score of
\* each winner, whatever the number of its runs, and leaves the score of every
\* other player as it was; the step that ends a game with Draw or Drop
\* changes no score.
C16_Scoring ==
    [][(winType = "None" /\ winType' # "None") =>
          IF winType' = "Win"
          THEN \A p \in Players :
                  points'[p] = points[p]
                               + (IF p \in Range(winners') THEN 1 ELSE 0)
          ELSE points' = points]_vars

\* ------------------------------------------------------------ reset

\* the cards of the set `kind` that lie in the decks, each deck counted for
\* itself
inDecks(kind) == Cardinality({e \in Players \X kind : e[2] \in deck[e[1]]})

\* C17: right after reset(), called in the middle of a game or after its end,
\* for the first time or again, no card is placed, the turn counter is 0, the
\* outcome is None, there is no winner and no loser, every player has 0 points
\* and an empty hand, and the decks hold the 72 cards, two of each color
\* and value.
C17_ResetPostcondition ==
    event = "reset" =>
        /\ cards = <<>>
        /\ turn = 0
        /\ winType = "None"
        /\ winners = <<>>
        /\ losers = <<>>
        /\ \A p \in Players : points[p] = 0 /\ hand[p] = NoCard
        /\ inDecks(CardIds) = FullBoard
        /\ \A col \in ColorSet, v \in Values : inDecks(ofKind(col, v)) = NbrCopies

\* reset() has just been called for the second time or later
C17_Witness == event = "reset" /\ resets >= 2

\* C18: each reset() adds 1 to the nbrFirstPlayer of one player, the player
\* of the lowest index among those with the smallest count, and leaves the
\* counts of the others as they are; no other step changes a count; so the
\* counts of two players never differ by more than 1.
C18_FirstPlayerRotation ==
    /\ [][IF resets' # resets
          THEN \E p \in Players :
                  /\ \A q \in Players : nbrFirstPlayer[p] <= nbrFirstPlayer[q]
                  /\ \A q \in Players :
                        nbrFirstPlayer[q] = nbrFirstPlayer[p] => p <= q
                  /\ nbrFirstPlayer' = [nbrFirstPlayer EXCEPT ![p] = @ + 1]
          ELSE nbrFirstPlayer' = nbrFirstPlayer]_vars
    /\ [](\A p \in Players, q \in Players :
            nbrFirstPlayer[p] - nbrFirstPlayer[q] <= 1)

\* three resets of a board of 3 players have given each player the first
\* turn once
C18_Witness ==
    /\ event = "reset"
    /\ nbr = 3
    /\ resets = 3
    /\ \A p \in Players : nbrFirstPlayer[p] = 1

\* ------------------------------------------------------------ turns

\* C19: the first card of every game is placed by the player the first turn
\* was assigned to, by the isTurn flag of the options or the random pick of
\* the constructor, or by the rotation of reset(); with the rotation every
\* player then opens as often as the others, up to a difference of 1.
C19_FirstTurnOpens ==
    [][(Len(cards) = 0 /\ Len(cards') = 1) =>
          cards'[1].playedBy = assigned]_vars

\* the players whose isTurn is true
turnHolders == {p \in Players : isTurn[p]}

\* C20: while the outcome is None, after construction, after reset(), between
\* two doATurn calls and while doATurn waits for a placement or makes it,
\* exactly one player has isTurn = true, and during a placement that player
\* is the one who places.
C20_SingleTurnHolder ==
    (nbr >= MinPlayers /\ winType = "None" /\ pc \in {"idle", "place", "ask"}) =>
        /\ Cardinality(turnHolders) = 1
        /\ pc \in {"place", "ask"} => turnHolders = {cur}

\* ------------------------------------------------------------ C21

\* C21: once the outcome is Win, Draw or Drop, every step that is not a
\* reset() is a doATurn call that throws 'The game is already over.' and
\* leaves the outcome, the winners, the losers, the scores, the hands, the
\* decks, the placed cards, the turn counter and the turn flags as they are.
C21_TerminalAbsorbing ==
    [][(winType # "None" /\ resets' = resets) =>
          /\ fault' = "The game is already over."
          /\ UNCHANGED <<winType, winners, losers, points, hand, deck, cards,
                         turn, isTurn>>]_vars

\* doATurn has been refused on a game that was won, the winner's point scored
C21_Witness ==
    /\ event = "fault"
    /\ fault = "The game is already over."
    /\ winType = "Win"
    /\ \E p \in Players : points[p] > 0

\* ------------------------------------------------------------ C22

\* C22: a card held in a hand is in no deck; the player whose step of doATurn
\* begins holds no card, and the fault 'The player already has a card in
\* hand.' is never raised; a card comes into a hand only when the hand is
\* empty, so that drawing never replaces a card held.
C22_HandDiscipline ==
    /\ [](/\ \A p \in Players, q \in Players :
                hand[p] # NoCard => hand[p] \notin deck[q]
          /\ (pc = "loop" /\ cur < nbr /\ winType = "None") =>
                hand[cur] = NoCard
          /\ fault # "The player already has a card in hand.")
    /\ [][\A p \in Players :
            (hand'[p] # NoCard /\ hand'[p] # hand[p]) => hand[p] = NoCard]_vars

\* a player who has placed a card in the first round has drawn again
C22_Witness ==
    /\ pc = "place"
    /\ turn >= 1
    /\ hand[cur] = held
    /\ playedBy(cards, cur) >= 1

\* ------------------------------------------------------------ C23

\* C23: the list of players of a board holds the names of the first
\* nbrPlayers options it was constructed with, in their order, at every
\* moment of every game and after every reset(); the cards lie on the board
\* in the order of that list: the i-th card placed was placed by the player
\* of index (i - 1) modulo the number of players, with playedIn that index.
C23_PlayerOrder ==
    nbr >= MinPlayers =>
        /\ Len(players) = nbr
        /\ \A i \in 1..nbr : players[i] = options[i]
        /\ \A i \in 1..Len(cards) :
              /\ cards[i].playedIn = (i - 1) % nbr
              /\ cards[i].playedBy = cards[i].playedIn

\* after a reset, a board made for two of the four players listed in
\* reverse is in its second round
C23_Witness ==
    /\ resets >= 1
    /\ options = <<"Player 4", "Player 3", "Player 2", "Player 1">>
    /\ players = <<"Player 4", "Player 3">>
    /\ Len(cards) > nbr

\* ------------------------------------------------------------ C24

\* automatic play, and no cell of the board can take the card the player of
\* the turn has drawn
noCoordinate ==
    /\ pc = "place"
    /\ auto
    /\ ~boardIsEmpty(cards)
    /\ availableCoordinates(cards, held.value) = {}

\* C24: in automatic play, when no cell can take the card the player has
\* drawn, doATurn ends the game at once with the outcome Win or Draw, Win
\* when the blocked game has winners and Draw when it has none; the card
\* stays in the hand of the player, and from then on no card is drawn or
\* placed.
C24_BlockedNoCoordinate ==
    /\ [][noCoordinate =>
            /\ winType' \in {"Win", "Draw"}
            /\ winType' = "Win" <=> winners' # <<>>
            /\ pc' = "idle"
            /\ hand[cur] = held
            /\ UNCHANGED <<cards, deck, hand, turn>>]_vars
    /\ [][winType # "None" => UNCHANGED <<cards, deck, hand, turn>>]_vars

\* a game of four players has ended blocked on a board of 36 cards, the card
\* of the first player still in hand, and doATurn has been refused since
C24_Witness ==
    /\ auto
    /\ nbr = MaxPlayers
    /\ event = "fault"
    /\ fault = "The game is already over."
    /\ winType = "Draw"
    /\ Len(cards) = (MaxXY + 1) * (MaxXY + 1)
    /\ hand[cur] = held
    /\ held # NoCard
    /\ availableCoordinates(cards, held.value) = {}

\* ------------------------------------------------------------ C25

\* the cells of the window of the board
Window == ((-MaxXY)..MaxXY) \X ((-MaxXY)..MaxXY)

\* a card of cs lies on one of the eight cells around (x, y)
adjacent(cs, x, y) ==
    \E i \in 1..Len(cs) :
        /\ Abs(cs[i].x - x) <= 1
        /\ Abs(cs[i].y - y) <= 1
        /\ (cs[i].x # x \/ cs[i].y # y)

\* a card at (x, y) keeps the placed cards within 6 columns and 6 rows
withinCap(cs, x, y) ==
    spanX(cs, x) < LineLimit /\ spanY(cs, y) < LineLimit

\* C25: on a board that holds a card, an empty cell of the window takes a
\* card, be it of the lowest or of the highest value, if and only if a card
\* lies on one of the eight cells around it and the bounding-box cap allows
\* it; playCard places a held card on an empty cell accordingly.
C25_AdjacencyRule ==
    /\ [](~boardIsEmpty(cards) =>
            \A q \in Window :
                cardsAt(cards, q[1], q[2]) = {} =>
                    \A v \in {1, NbrValues} :
                        cardCanBePlaced(cards, v, q[1], q[2])
                        <=> (/\ adjacent(cards, q[1], q[2])
                             /\ withinCap(cards, q[1], q[2])))
    /\ [][(/\ event' = "playCard"
           /\ held' # NoCard
           /\ ~boardIsEmpty(cards)
           /\ xy' \in Window
           /\ cardsAt(cards, xy'[1], xy'[2]) = {})
          => (result' = "The card was successfully placed."
              <=> (/\ adjacent(cards, xy'[1], xy'[2])
                   /\ withinCap(cards, xy'[1], xy'[2])))]_vars

\* playCard has refused a card on an empty cell of the window that the cap
\* allows and that no card lies next to, after it had placed a card on an
\* empty cell next to the first card
C25_Witness ==
    /\ event = "playCard"
    /\ held # NoCard
    /\ result = "The card could not be placed."
    /\ xy \in Window
    /\ cardsAt(cards, xy[1], xy[2]) = {}
    /\ withinCap(cards, xy[1], xy[2])
    /\ ~adjacent(cards, xy[1], xy[2])
    /\ Len(cards) = 2
    /\ cardsAt(cards, cards[2].x, cards[2].y) = {2}
    /\ adjacent(cards, cards[2].x, cards[2].y)

\* ------------------------------------------------------------ C26

\* the cell q may take a card of value v on the board cs: the origin when the
\* board is empty, a cell of availableCoordinates when it is not
legalCell(cs, v, q) ==
    IF boardIsEmpty(cs) THEN q = <<0, 0>>
    ELSE q \in availableCoordinates(cs, v)

fullRoundReturns ==
    /\ pc \in {"loop", "place", "ask"}
    /\ pc' = "idle"
    /\ resets' = resets
    /\ Len(cards') = nbr * (turn + 1)

\* C28 as stated: the turn counter goes up by 1 at the end of every doATurn
\* in which every player has placed a card.
C28_CounterAfterFullRound ==
    [][fullRoundReturns => turn' = turn + 1]_vars

\* C28: the turn counter goes up by exactly 1 at the end of every doATurn in
\* which every player has placed a card and the game is still undecided, and
\* at no other moment but reset(): it stays as it is when a card decides the
\* game, that of the last player of the round included.  Every card records
\* as playedTurn the counter at its placement and as playedIn the index of its
\* player; between two doATurn calls of an undecided game the board holds
\* as many cards as the counter times the number of players.
C28_RoundCounter ==
    /\ [][(fullRoundReturns /\ winType' = "None") => turn' = turn + 1]_vars
    /\ [][(turn' # turn /\ resets' = resets) =>
            /\ turn' = turn + 1
            /\ pc' = "idle"
            /\ winType' = "None"
            /\ cards' = cards
            /\ Len(cards) = nbr * (turn + 1)]_vars
    /\ [][(winType = "None" /\ winType' # "None") => turn' = turn]_vars
    /\ [][(pc \in {"place", "ask"} /\ Len(cards') = Len(cards) + 1) =>
            /\ cards'[Len(cards')].playedTurn = turn
            /\ cards'[Len(cards')].playedIn = cur
            /\ cards'[Len(cards')].playedBy = cur]_vars
    /\ [](\A i \in 1..Len(cards) :
            /\ cards[i].playedTurn = (i - 1) \div nbr
            /\ cards[i].playedIn = cards[i].playedBy)
    /\ []((nbr >= MinPlayers /\ pc = "idle" /\ winType = "None") =>
            Len(cards) = turn * nbr)

\* a game of two players has ended on the card of the second player that
\* fills the board: 36 rounds of cards, and the counter at 35
C28_Witness ==
    /\ nbr = MinPlayers
    /\ winType # "None"
    /\ Len(cards) = FullBoard
    /\ cards[FullBoard].playedBy = nbr - 1
    /\ cards[FullBoard].playedTurn = turn
    /\ turn * nbr = FullBoard - nbr

\* ------------------------------------------------------------ C29

\* the for loop of doATurn reaches a player whose hand and deck are empty
outOfCards ==
    /\ pc = "loop"
    /\ cur < nbr
    /\ winType = "None"
    /\ hand[cur] = NoCard
    /\ deck[cur] = {}

\* C29: when the step of a player starts with an empty hand and an empty
\* deck, doATurn returns at once with the game decided (a win or a draw, as
\* checkVictory resolves it) and without a further card on the board.
C29_OutOfTokens ==
    [][outOfCards =>
        /\ pc' = "idle"
        /\ winType' # "None"
        /\ winType' = checkVictory(cards, nbr, isTurn', hand).winType
        /\ cards' = cards]_vars

\* what doATurn does there: it returns at once with what checkVictory finds
\* and no further card, and checkVictory finds the game undecided unless a
\* series of winning length lies on the board
C29_ReturnsUnresolved ==
    [][outOfCards =>
        /\ pc' = "idle"
        /\ event' = "nodeck"
        /\ cards' = cards
        /\ winType' = checkVictory(cards, nbr, isTurn', hand).winType
        /\ winType' \in {"None", "Win"}
        /\ (winType' = "None" => losers' = playerList(nbr))]_vars

\* doATurn has returned from a player without cards and the game is undecided
C29_Undecided ==
    /\ pc = "idle"
    /\ event = "nodeck"
    /\ winType = "None"
    /\ Len(losers) = nbr
    /\ deck[cur] = {}
    /\ hand[cur] = NoCard

\* ------------------------------------------------------------ C30

\* a doATurn(true) returns
autoTurnReturns ==
    /\ auto
    /\ pc \in {"loop", "place"}
    /\ pc' = "idle"

\* C30: playGame() in automatic play ends, for 2, 3 and 4 players: the game
\* gets decided and stays so; every doATurn adds a card to the board or
\* decides the game (one that leaves it undecided adds a card of every
\* player); no more than 72 cards are placed and the 72nd decides the game;
\* the outcome is a win or a draw.
C30_AutoGameTerminates ==
    /\ <>[](pc = "idle" /\ winType \in {"Win", "Draw"})
    /\ [][autoTurnReturns =>
            \/ winType' # "None"
            \/ /\ Len(cards') = Len(cards)
               /\ Len(cards') = turn' * nbr
               /\ turn' = turn + 1]_vars
    /\ [][(pc = "idle" /\ pc' = "loop") => Len(cards) = turn * nbr]_vars
    /\ [](Len(cards) <= FullBoard)
    /\ [][(Len(cards') = FullBoard /\ Len(cards) < FullBoard) =>
            (pc' = "idle" /\ winType' \in {"Win", "Draw"})]_vars
    /\ [](winType \in {"None", "Win", "Draw"})
    /\ [](fault = "none")
    /\ []((pc = "place" /\ ~boardIsEmpty(cards)) =>
            \/ availableCoordinates(cards, held.value) = {}
            \/ GamePicks(cards, availableCoordinates(cards, held.value)) # {})
    /\ [][pc = "place" => pc' \in {"loop", "idle"}]_vars

\* an automatic game of 3 players has ended with a win, after several
\* doATurn calls and before the board was full
C30_Witness ==
    /\ pc = "idle"
    /\ auto
    /\ nbr = 3
    /\ winType = "Win"
    /\ event = "decided"
    /\ turn >= 2
    /\ Len(cards) < FullBoard

\* ------------------------------------------------------------ C31

\* cs2 is cs1 with one more card at its end
appendsOne(cs1, cs2) ==
    /\ Len(cs2) = Len(cs1) + 1
    /\ SubSeq(cs2, 1, Len(cs1)) = cs1

\* C31: as long as reset() is not called, every step of doATurn leaves the
\* list of placed cards as it is or appends one card to it: the card the
\* player of the turn holds, with the coordinates of the placement, the turn
\* counter and the player's index.  The cards placed before keep their place
\* in the list and all their fields; no card is in the list twice.
C31_PlacedImmutable ==
    /\ [][resets' = resets =>
            \/ cards' = cards
            \/ /\ appendsOne(cards, cards')
               /\ result' = "The card was successfully placed."
               /\ hand[cur] = held
               /\ hand'[cur] = NoCard
               /\ cards'[Len(cards')] =
                    placed(held, xy'[1], xy'[2], turn, cur, cur)]_vars
    /\ [](\A i, j \in 1..Len(cards) :
            cardOf(cards[i]) = cardOf(cards[j]) => i = j)
    /\ [](\A i \in 1..Len(cards) :
            cardOf(cards[i]) \notin UNION {deck[p] : p \in Players})

\* a card lies on another one at the origin, both still in the list
C31_Witness ==
    /\ Len(cards) = 2
    /\ event = "placed"
    /\ cards[1].x = 0 /\ cards[1].y = 0
    /\ cards[2].x = 0 /\ cards[2].y = 0
    /\ cards[1].value < cards[2].value
    /\ cards[1].playedBy # cards[2].playedBy

\* ------------------------------------------------------------ C32

\* the lengths determineSeriesOfCards is called with in a game of n players
scanLengths(n) == {BlockedLen, requiredLength(n)}

\* the cards of cs on the cell of the card c, c itself apart
covered(cs, c) ==
    {cs[i] : i \in {j \in 1..Len(cs) :
                      cs[j].x = c.x /\ cs[j].y = c.y /\ cs[j] # c}}

\* in every cell the cards lie in ascending order of value, the card placed
\* last on top
stacksAscend(cs) ==
    \A i, j \in 1..Len(cs) :
        (i < j /\ cs[i].x = cs[j].x /\ cs[i].y = cs[j].y) =>
            cs[i].value < cs[j].value

\* the cards the scan keeps are the cards of highest value of their cells
topIsHighest(cs) ==
    topCards(cs) =
        {cs[i] : i \in {j \in 1..Len(cs) :
                          \A e \in covered(cs, cs[j]) : e.value < cs[j].value}}

\* every card of every series the scan returns is the visible card of its
\* cell, and the cards of a series have one color
seriesOfVisible(cs, n) ==
    \A length \in scanLengths(n) :
        \A i \in 1..Len(determineSeriesOfCards(cs, length)) :
            \A k \in 1..Len(determineSeriesOfCards(cs, length)[i]) :
                /\ determineSeriesOfCards(cs, length)[i][k] \in topCards(cs)
                /\ determineSeriesOfCards(cs, length)[i][k].color =
                     determineSeriesOfCards(cs, length)[i][1].color

\* the series of `length` cards that hasWinningSeries and
\* determineWinnerForBlockedGame count for the owner of their first card
keptSeries(cs, length) ==
    LET kept(series) == seriesIsKept(series, length)
    IN  SelectSeq(determineSeriesOfCards(cs, length), kept)

\* no series counted for a player runs through a cell where a card of that
\* player and of the color of the series lies under a card of another color
\* or of another player: the card on top has broken that run
coverBreaksRun(cs, n) ==
    \A length \in scanLengths(n) :
        \A i \in 1..Len(keptSeries(cs, length)) :
            \A k \in 1..Len(keptSeries(cs, length)[i]) :
                \A e \in covered(cs, keptSeries(cs, length)[i][k]) :
                    (/\ e.playedBy = keptSeries(cs, length)[i][1].playedBy
                     /\ e.color = keptSeries(cs, length)[i][1].color)
                    => /\ keptSeries(cs, length)[i][k].color = e.color
                       /\ keptSeries(cs, length)[i][k].playedBy = e.playedBy

\* C32: in every cell the card placed last has the highest value, so the
\* scan of determineSeriesOfCards, which keeps the card placed last of each
\* cell, sees the highest card of each cell; no covered card is in a series;
\* a card placed on a card of a run that has another color or another owner
\* breaks that run.
C32_VisibleTokenScan ==
    /\ stacksAscend(cards)
    /\ topIsHighest(cards)
    /\ seriesOfVisible(cards, nbr)
    /\ coverBreaksRun(cards, nbr)

\* what holds of the scan: the card placed last is the highest of its cell,
\* the series are made of visible cards of one color
C32_ScanSeesTopCards ==
    /\ stacksAscend(cards)
    /\ topIsHighest(cards)
    /\ seriesOfVisible(cards, nbr)

\* a game is won with a row in which a card of another player lies on a
\* card of the winner
C32_WonAcrossCover ==
    /\ winType = "Win"
    /\ event = "decided"
    /\ ~coverBreaksRun(cards, nbr)

\* ------------------------------------------------------------ C33

\* C33: playGame(n) with n > 0 calls doATurn at most n times and returns
\* when the budget is used up or, before that, as soon as the game is
\* decided; with n <= 0 it returns only when the game is decided; it calls
\* doATurn on an undecided game only, also when it is called on a game
\* already decided, so 'The game is already over.' is never raised.
C33_TurnBudget ==
    /\ []((punto.state # "none" /\ punto.nbrTurn > 0) =>
            punto.i <= punto.nbrTurn)
    /\ [][(pc = "idle" /\ pc' = "loop") =>
            /\ punto.state = "playing"
            /\ punto' = [punto EXCEPT
                           !.i = IF punto.nbrTurn > 0 THEN @ + 1 ELSE @]
            /\ winType = "None"]_vars
    /\ [][(punto.state = "playing" /\ punto'.state = "returned") =>
            /\ \/ isGameOver
               \/ punto.nbrTurn > 0 /\ punto.i = punto.nbrTurn
            /\ punto'.i = punto.i
            /\ UNCHANGED <<pc, fault, boardVars, playerVars>>]_vars
    /\ [][(punto.state = "playing" /\ pc = "idle" /\ isGameOver) =>
            /\ punto'.state = "returned"
            /\ pc' = "idle"]_vars
    /\ [](fault # "The game is already over.")

\* playGame(MaxBudget) has returned after a single doATurn, which decided
\* the game
C33_Witness ==
    /\ punto.state = "returned"
    /\ event = "played"
    /\ isGameOver
    /\ punto.nbrTurn = MaxBudget
    /\ punto.i = 1

\* ------------------------------------------------------------ C34

\* the players with a card in hand
holders == {p \in Players : hand[p] # NoCard}

\* C34: while playGame runs, a doATurn starts only when no doATurn is under
\* way and playGame is in its loop; playGame itself moves only between two
\* doATurn calls; a turn waits only for the coordinates of a player of a
\* game that is not automatic, on a board that is not empty; at most one
\* player holds a card, and while a card is being placed it is the card of
\* the player whose turn it is.
C34_SequentialTurns ==
    /\ [][(pc' = "loop" /\ cur' = 0) =>
            /\ pc = "idle"
            /\ punto.state = "playing"
            /\ winType = "None"]_<<pc, cur>>
    /\ [][punto' # punto => pc = "idle"]_vars
    /\ [](pc = "ask" => ~auto /\ ~boardIsEmpty(cards)
                          /\ punto.state = "playing")
    /\ [](Cardinality(holders) <= 1)
    /\ [](pc \in {"place", "ask"} => holders = {cur} /\ hand[cur] = held)
    /\ [](pc = "loop" => holders = {})

\* the second player of a game played through playGame is asked for its
\* coordinates, 3 cards on the board
C34_Witness ==
    /\ pc = "ask"
    /\ punto.state = "playing"
    /\ cur = 1
    /\ holders = {1}
    /\ Len(cards) >= 3

\* ------------------------------------------------------------ C35

\* a card of cs lies on the cell (0, 0)
originTaken(cs) == \E i \in 1..Len(cs) : cs[i].x = 0 /\ cs[i].y = 0

\* C35: in the games that doATurn plays, automatic or not, reset or not, the
\* first card of a game goes to (0, 0), straight from the head of the
\* do-while loop and not from an answer of the player, the player is never
\* asked for coordinates on an empty board, and so a board that is not empty
\* has a card on (0, 0), its first one.
C35_OpeningMove ==
    /\ [][(boardIsEmpty(cards) /\ ~boardIsEmpty(cards')) =>
            /\ pc = "place"
            /\ Len(cards') = 1
            /\ cards'[1].x = 0 /\ cards'[1].y = 0
            /\ cardOf(cards'[1]) = held
            /\ cards'[1].playedBy = cur]_vars
    /\ [][pc' = "ask" => ~boardIsEmpty(cards)]_pc
    /\ [](~boardIsEmpty(cards) =>
            originTaken(cards) /\ cards[1].x = 0 /\ cards[1].y = 0)

\* the first card of a game that is not automatic has just been placed,
\* after a reset
C35_Witness ==
    /\ Len(cards) = 1
    /\ event = "placed"
    /\ ~auto
    /\ resets >= 1
    /\ originTaken(cards)

\* ------------------------------------------------------------ C36

\* C36 as stated: a playCard that is given a card other than the card in the
\* hand of the player (a card of a deck, the card of another player, a card
\* on the board) places nothing, moves no card of the board and leaves the
\* hands as they are.
C36_OnlyHeldToken ==
    [][(event' = "playCard" /\ held' # hand[cur']) =>
            cards' = cards /\ hand' = hand]_<<cards, hand>>

\* what the code guarantees: a playCard changes the board and the hands only
\* when the player holds a card, whichever card that is
C36_SomeTokenHeld ==
    [][event' = "playCard" => hand[cur'] # NoCard]_<<cards, hand>>

\* a card that lies in a deck lies on the board too, and the hand of the
\* player who played it is empty
C36_DeckCardPlaced ==
    /\ event = "playCard"
    /\ result = "The card was successfully placed."
    /\ held \in deck[cur]
    /\ hand[cur] = NoCard
    /\ \E i \in 1..Len(cards) : cardOf(cards[i]) = held

\* a card of the board was played again: it lies on the board twice, both
\* entries on the cell of the second call
C36_PlacedCardMoved ==
    /\ event = "playCard"
    /\ result = "The card was successfully placed."
    /\ Cardinality({i \in 1..Len(cards) : cardOf(cards[i]) = held}) = 2

\* ------------------------------------------------------------ C37

\* the players of the list ps
listed(ps) == {ps[i] : i \in 1..Len(ps)}

\* winners and losers split the players of the board in two
partitioned ==
    /\ listed(winners) \cap listed(losers) = {}
    /\ listed(winners) \cup listed(losers) = Players

\* C37 as stated: once the outcome is Win, Draw or Drop every player is
\* either a winner or a loser, none is both, and there are winners exactly
\* when the outcome is Win; while the outcome is None both lists are empty.
C37_WinnersLosersPartition ==
    /\ winType # "None" => partitioned /\ (winners # <<>> <=> winType = "Win")
    /\ winType = "None" => winners = <<>> /\ losers = <<>>

\* the part of C37 about decided games
C37_DecidedPartition ==
    winType # "None" => partitioned /\ (winners # <<>> <=> winType = "Win")

\* a doATurn has ended without deciding the game and has listed every
\* player as a loser
C37_UndecidedLosers ==
    /\ pc = "idle"
    /\ winType = "None"
    /\ winners = <<>>
    /\ listed(losers) = Players
    /\ nbr >= MinPlayers

\* ------------------------------------------------------------ C38

\* a doATurn waits for the coordinates of a player whose hand a reset() has
\* emptied in the meantime
raced == pc = "ask" /\ hand[cur] = NoCard

\* C38 as stated: whatever the player answers to a doATurn that a reset()
\* has overtaken, no card is placed on the new board, the outcome stays
\* None and the lists of winners and losers stay empty.
C38_ResetRace ==
    [][raced =>
          /\ cards' = <<>>
          /\ winType' = "None"
          /\ winners' = <<>>
          /\ losers' = <<>>]_vars

\* what the code guarantees: the overtaken doATurn places no card, and
\* leaves the decks and the hands of the new game as they are
C38_NoOldToken ==
    [][(raced /\ resets' = resets) =>
          /\ cards' = <<>>
          /\ deck' = deck
          /\ hand' = hand]_vars

\* the new game has ended as dropped before any of its cards was drawn
C38_FreshGameDropped ==
    /\ event = "drop"
    /\ winType = "Drop"
    /\ cards = <<>>
    /\ listed(losers) = Players
    /\ resets >= 1
    /\ \A p \in Players : hand[p] = NoCard

====
